---- MODULE Spec2Model ----
(***************************************************************************)
(* A model of symconstraints: the deduction engine of Constraints          *)
(* (constraints.py) and the mapping consumer (operator_mapping.py).         *)
(*                                                                         *)
(* Symbolic values are modelled on the linear fragment over real symbols:  *)
(* an expression is a linear form with rational coefficients, kept in the  *)
(* canonical shape SymPy keeps it in (one common positive denominator, no  *)
(* common factor), so that structural equality of two model expressions is *)
(* structural equality of the SymPy expressions.  den = 0 stands for the   *)
(* two infinities (num["one"] = 1 for oo, -1 for -oo).                     *)
(***************************************************************************)
EXTENDS Integers, Sequences, FiniteSets, Bags, TLC

\* ------------------------------------------------------------------ bounds
MaxRelations == 2
MaxVal == 3
MaxAtoms == 3
MaxOperations == 2
MaxMapVal == 1
\* rows of a table, and the largest number a cell of a table holds
MaxRows == 2
MaxCell == 1
\* characters of a str of names, names of a list of names
MaxStrLen == 3
MaxNames == 2
\* branches of a disjunction
MaxBranches == 2

\* ------------------------------------------------------------- expressions
Symbols == {"a", "b", "c", "d", "e"}
\* the placeholder of Pass 2, Dummy(**symbol.assumptions0)
Dummy == "p"
AllSymbols == Symbols \cup {Dummy}
Terms == AllSymbols \cup {"one"}

Abs(x) == IF x < 0 THEN -x ELSE x

RECURSIVE Gcd(_, _)
Gcd(x, y) == IF y = 0 THEN Abs(x) ELSE Gcd(y, x % Abs(y))

\* num/den divided by g > 0, the sign of den moved to the numerators
NormBy(num, den, g) ==
    IF g = 1 /\ den > 0 THEN [num |-> num, den |-> den]
    ELSE IF den > 0 THEN [num |-> [t \in Terms |-> num[t] \div g], den |-> den \div g]
    ELSE [num |-> [t \in Terms |-> (-num[t]) \div g], den |-> (-den) \div g]

\* num/den brought to the canonical shape: den > 0 and no common factor.
Norm(num, den) ==
    NormBy(num, den,
           Gcd(num["a"], Gcd(num["b"], Gcd(num["c"], Gcd(num["d"],
               Gcd(num["e"], Gcd(num[Dummy], Gcd(num["one"], den))))))))

Zero == [t \in Terms |-> 0]
Const(k) == [num |-> [Zero EXCEPT !["one"] = k], den |-> 1]
Sym(s) == [num |-> [Zero EXCEPT ![s] = 1], den |-> 1]
PosInf == [num |-> [Zero EXCEPT !["one"] = 1], den |-> 0]
NegInf == [num |-> [Zero EXCEPT !["one"] = -1], den |-> 0]

IsInf(x) == x.den = 0

\* finite expressions only
Add(x, y) == Norm([t \in Terms |-> x.num[t] * y.den + y.num[t] * x.den], x.den * y.den)
Sub(x, y) == Norm([t \in Terms |-> x.num[t] * y.den - y.num[t] * x.den], x.den * y.den)
Scale(k, x) == Norm([t \in Terms |-> k * x.num[t]], x.den)

\* Basic.free_symbols
FreeSymbolsExpr(x) == {s \in AllSymbols : x.num[s] # 0}
\* Expr.is_constant(): no free symbol (a number, oo or -oo)
IsConstant(x) == \A s \in AllSymbols : x.num[s] = 0

\* the order of a constant (a number, oo, -oo) and 0
SignOfConstant(x) ==
    IF x.num["one"] > 0 THEN "gt" ELSE IF x.num["one"] < 0 THEN "lt" ELSE "eq"

FlipSign(s) == IF s = "gt" THEN "lt" ELSE IF s = "lt" THEN "gt" ELSE s

\* the order of x and y read from their difference, when that is a number
CompareDiff(diff) == IF IsConstant(diff) THEN SignOfConstant(diff) ELSE "unknown"

\* How x compares with y when SymPy can decide it (its relational constructors
\* evaluate exactly then): one side infinite, or a difference that is a number.
\* "unknown" when the difference keeps a free symbol.
CompareExpr(x, y) ==
    IF IsInf(x) /\ IsInf(y)
    THEN (IF x = y THEN "eq" ELSE SignOfConstant(x))
    ELSE IF IsInf(x) THEN SignOfConstant(x)
    ELSE IF IsInf(y) THEN FlipSign(SignOfConstant(y))
    ELSE CompareDiff(Sub(x, y))

\* --------------------------------------------------------------- relations
RelOps == {"=", "<", "<=", ">", ">="}

\* whether "x op y" holds, given how x compares with y
HoldsFor(op, cmp) ==
    CASE op = "="  -> cmp = "eq"
      [] op = "<"  -> cmp = "lt"
      [] op = "<=" -> cmp \in {"lt", "eq"}
      [] op = ">"  -> cmp = "gt"
      [] op = ">=" -> cmp \in {"gt", "eq"}

BoolRel(b) == [op |-> IF b THEN "true" ELSE "false", lhs |-> Const(0), rhs |-> Const(0)]

MkRelCmp(op, x, y, cmp) ==
    IF cmp = "unknown" THEN [op |-> op, lhs |-> x, rhs |-> y]
    ELSE BoolRel(HoldsFor(op, cmp))

\* Eq(x, y), Lt(x, y), Le(x, y), Gt(x, y), Ge(x, y): the relation, or
\* S.true / S.false when SymPy evaluates it on construction.
MkRel(op, x, y) == MkRelCmp(op, x, y, CompareExpr(x, y))

IsBoolRel(r) == r.op \in {"true", "false"}

\* GetBasicSymbols reading the left-hand side only
GetBasicSymbolsLhs(r) ==
    IF IsBoolRel(r) THEN {} ELSE {s \in AllSymbols : r.lhs.num[s] # 0}

\* _get_basic_symbols(basic)
GetBasicSymbols(r) ==
    IF IsBoolRel(r) THEN {}
    ELSE {s \in AllSymbols : r.lhs.num[s] # 0 \/ r.rhs.num[s] # 0}

\* the value of a finite expression under an assignment m of integers to the
\* symbols, as a fraction n / x.den with x.den > 0
ValueNum(x, m) ==
    x.num["one"] + x.num["a"] * m["a"] + x.num["b"] * m["b"] + x.num["c"] * m["c"]
                 + x.num["d"] * m["d"] + x.num["e"] * m["e"]

CompareInts(l, h) == IF l < h THEN "lt" ELSE IF l > h THEN "gt" ELSE "eq"

\* relation.subs(values): the truth value of r under m (m covers r's symbols)
EvalRel(r, m) ==
    IF IsBoolRel(r) THEN r.op = "true"
    ELSE HoldsFor(r.op, CompareInts(ValueNum(r.lhs, m) * r.rhs.den,
                                    ValueNum(r.rhs, m) * r.lhs.den))

\* ------------------------------------------------------------------- sets
\* A solution set: FiniteSet(start), Interval(start, end, left_open,
\* right_open), or any other set (EmptySet, Reals, ...), which no branch of the
\* engine looks into.
FiniteSet(x) ==
    [kind |-> "FiniteSet", start |-> x, end |-> x, left_open |-> FALSE, right_open |-> FALSE]
Interval(x, y, lo, ro) ==
    [kind |-> "Interval", start |-> x, end |-> y, left_open |-> lo, right_open |-> ro]
OtherSet ==
    [kind |-> "Other", start |-> Const(0), end |-> Const(0), left_open |-> FALSE, right_open |-> FALSE]

\* a FiniteSet of the two points x, y
FiniteSetOfTwo(x, y) ==
    [kind |-> "FiniteSetOfTwo", start |-> x, end |-> y, left_open |-> FALSE, right_open |-> FALSE]
\* Union(set1, set2) and Intersection(set1, set2) that SymPy leaves unevaluated
Union(set1, set2) == [kind |-> "Union", args |-> <<set1, set2>>]
Intersection(set1, set2) == [kind |-> "Intersection", args |-> <<set1, set2>>]

\* the solutions in sym of (k * sym + rest) / den op 0, f = lhs - rhs, k # 0
SolveLinear(op, f, sym, point) ==
    IF op = "=" THEN FiniteSet(point)
    ELSE IF (op \in {"<", "<="} /\ f.num[sym] > 0) \/ (op \in {">", ">="} /\ f.num[sym] < 0)
    THEN Interval(NegInf, point, TRUE, op \in {"<", ">"})
    ELSE Interval(point, PosInf, op \in {"<", ">"}, TRUE)

SolveDiff(op, f, sym) ==
    IF f.num[sym] = 0 THEN OtherSet
    ELSE SolveLinear(op, f, sym,
                     Norm([t \in Terms |-> IF t = sym THEN 0 ELSE -f.num[t]], f.num[sym]))

\* solveset(relation, symbol, domain=_get_symbol_domain(symbol)) for a linear
\* relation and a symbol declared real (the default of symbols(), for which
\* _get_symbol_domain gives S.Reals): with lhs - rhs = (k * symbol + rest) / den,
\* the single point -rest / k of an equality, the half line on the side of
\* -rest / k that the operator and the sign of k select, and a set that is
\* neither when symbol cancels (k = 0).
Solveset(r, sym) ==
    IF IsBoolRel(r) THEN OtherSet ELSE SolveDiff(r.op, Sub(r.lhs, r.rhs), sym)

\* ------------------------------------------------------ relation classifier
\* the body of _DummyRelation.__init__ after solveset: [rel, expr, strict], or
\* rel = "ValueError" when it raises
ClassifySet(dummy_set) ==
    IF dummy_set.kind = "FiniteSet"
    THEN [rel |-> "=", expr |-> dummy_set.start, strict |-> FALSE]
    ELSE IF dummy_set.kind = "Interval" /\ IsConstant(dummy_set.end)
    THEN [rel |-> ">", expr |-> dummy_set.start, strict |-> dummy_set.left_open]
    ELSE IF dummy_set.kind = "Interval" /\ IsConstant(dummy_set.start)
    THEN [rel |-> "<", expr |-> dummy_set.end, strict |-> dummy_set.right_open]
    ELSE [rel |-> "ValueError", expr |-> Const(0), strict |-> FALSE]

\* An atom outside the linear fragment is given by the set solveset returns
\* for it.
OtherAtom(dummy_set) == [op |-> "other", dummy_set |-> dummy_set]

\* dummy_set = solveset(relation, dummy, domain=_get_symbol_domain(dummy))
DummySet(relation) ==
    IF relation.op = "other" THEN relation.dummy_set ELSE Solveset(relation, Dummy)

\* whether len(set) raises TypeError: only a FiniteSet has a length
Unsized(set) == set.kind \notin {"FiniteSet", "FiniteSetOfTwo"}

TypeError == [rel |-> "TypeError", expr |-> Const(0), strict |-> FALSE]

\* the while loop of lines 71-74, then the classification: an Intersection or
\* Union is replaced by its second argument as long as len() of that is 1;
\* len() of a set that has none raises TypeError
RECURSIVE ClassifyLoop(_)
ClassifyLoop(dummy_set) ==
    IF dummy_set.kind \notin {"Intersection", "Union"} THEN ClassifySet(dummy_set)
    ELSE IF Unsized(dummy_set.args[2]) THEN TypeError
    ELSE IF dummy_set.args[2].kind = "FiniteSet" THEN ClassifyLoop(dummy_set.args[2])
    ELSE ClassifySet(dummy_set)

\* _DummyRelation(relation, dummy)
DummyRelation(relation) == ClassifyLoop(DummySet(relation))

\* MatchOp with the operators of the two inequality cases exchanged
MatchOpSwapped(relation1, relation2) ==
    IF relation1.rel = "=" /\ relation2.rel = "=" THEN "="
    ELSE IF relation1.rel \in {">", "="} /\ relation2.rel \in {"<", "="}
    THEN (IF relation1.strict \/ relation2.strict THEN ">" ELSE ">=")
    ELSE IF relation1.rel \in {"<", "="} /\ relation2.rel \in {">", "="}
    THEN (IF relation1.strict \/ relation2.strict THEN "<" ELSE "<=")
    ELSE "none"

\* MatchOp reading the strictness of the first atom only
MatchOpFirstStrict(relation1, relation2) ==
    IF relation1.rel = "=" /\ relation2.rel = "=" THEN "="
    ELSE IF relation1.rel \in {">", "="} /\ relation2.rel \in {"<", "="}
    THEN (IF relation1.strict THEN "<" ELSE "<=")
    ELSE IF relation1.rel \in {"<", "="} /\ relation2.rel \in {">", "="}
    THEN (IF relation1.strict THEN ">" ELSE ">=")
    ELSE "none"

\* the match statement of _and_dummy_to_constraints: the constructor (Eq, Lt,
\* Le, Gt, Ge) the pair (relation1, relation2) of classified atoms selects,
\* "none" when no case matches
MatchOp(relation1, relation2) ==
    IF relation1.rel = "=" /\ relation2.rel = "=" THEN "="
    ELSE IF relation1.rel \in {">", "="} /\ relation2.rel \in {"<", "="}
    THEN (IF relation1.strict \/ relation2.strict THEN "<" ELSE "<=")
    ELSE IF relation1.rel \in {"<", "="} /\ relation2.rel \in {">", "="}
    THEN (IF relation1.strict \/ relation2.strict THEN ">" ELSE ">=")
    ELSE "none"

\* AddIfMatched with the two expressions exchanged
AddIfMatchedReversed(op, relation1, relation2) ==
    IF op = "none" THEN {} ELSE {MkRel(op, relation2.expr, relation1.expr)}

AddIfMatched(op, relation1, relation2) ==
    IF op = "none" THEN {} ELSE {MkRel(op, relation1.expr, relation2.expr)}

\* what one turn of the loop over combinations(useful_relations, 2) adds
MatchPair(relation1, relation2) ==
    AddIfMatched(MatchOp(relation1, relation2), relation1, relation2)

Classified(x) == x.rel \notin {"ValueError", "TypeError"}
\* useful_relations: the atoms of and_relation.args that classify, in order
UsefulRelations(args) ==
    SelectSeq([i \in 1..Len(args) |-> DummyRelation(args[i])], Classified)

\* combinations(useful, 2), as index pairs
Combinations2(n) == {q \in (1..n) \X (1..n) : q[1] < q[2]}

CombineUseful(useful) ==
    UNION {MatchPair(useful[q[1]], useful[q[2]]) : q \in Combinations2(Len(useful))}

\* _and_dummy_to_constraints(and_relation, dummy), args the atoms of the
\* conjunction in the order And.args lists them: what it returns when no atom
\* raises TypeError
AndDummyToConstraints(args) == CombineUseful(UsefulRelations(args))

\* the atoms before the first one for which _DummyRelation raises TypeError,
\* all of them when there is none
RECURSIVE BeforeTypeError(_)
BeforeTypeError(args) ==
    IF args = <<>> \/ DummyRelation(Head(args)) = TypeError THEN <<>>
    ELSE <<Head(args)>> \o BeforeTypeError(Tail(args))

CaughtValueError(rel) == DummyRelation(rel).rel = "ValueError"
\* the atoms "except ValueError as e: warn(str(e))" warns of
Warned(args) == SelectSeq(BeforeTypeError(args), CaughtValueError)

\* --------------------------------------------------------------- operations
\* operation.py: Validation(keys, operations), Imputation(keys, target_key,
\* operation); frozen dataclasses, equal by their fields
Validation(keys, operations) == [keys |-> keys, operations |-> operations]
Imputation(keys, target_key, operation) ==
    [keys |-> keys, target_key |-> target_key, operation |-> operation]

\* ------------------------------------------------------- deduction engine
\* PossibleImputationFromSet listing the target among the keys
PossibleImputationWithTarget(set_expr, target_expr) ==
    IF set_expr.kind = "FiniteSet"
    THEN {Imputation(FreeSymbolsExpr(set_expr.start) \cup {target_expr}, target_expr,
                     set_expr.start)}
    ELSE {}

\* Constraints._add_possible_imputation_from_set(set_expr, target_expr): the
\* imputations it appends (none or one)
PossibleImputationFromSet(set_expr, target_expr) ==
    IF set_expr.kind = "FiniteSet"
    THEN {Imputation(FreeSymbolsExpr(set_expr.start), target_expr, set_expr.start)}
    ELSE {}

\* the finite end of a half line, the point of a single point
FiniteEnd(set) == IF IsInf(set.start) THEN set.end ELSE set.start

\* ImputationsOfCall taking the finite end of a half line for a solution too
ImputationsOfCallIntervals(constraint, sym) ==
    IF sym \notin GetBasicSymbols(constraint) THEN {}
    ELSE IF Solveset(constraint, sym).kind = "Interval"
    THEN {Imputation(FreeSymbolsExpr(FiniteEnd(Solveset(constraint, sym))), sym,
                     FiniteEnd(Solveset(constraint, sym)))}
    ELSE PossibleImputationFromSet(Solveset(constraint, sym), sym)

\* the imputations the turn for (constraint, sym) of "for symbol in symbols"
\* appends
ImputationsOfCall(constraint, sym) ==
    IF sym \in GetBasicSymbols(constraint)
    THEN PossibleImputationFromSet(Solveset(constraint, sym), sym)
    ELSE {}

BagOfCalls(cs, imps) ==
    [imp \in imps |->
        Cardinality({q \in cs \X Symbols : imp \in ImputationsOfCall(q[1], q[2])})]

\* what the calls _add_possible_imputation_from_set(solveset(constraint,
\* symbol), symbol), one per symbol of each constraint of cs, append to
\* self._imputations: a bag, the list without its order
HarvestImputations(cs) ==
    BagOfCalls(cs, UNION {ImputationsOfCall(q[1], q[2]) : q \in cs \X Symbols})

\* DictAddAll assigning the group instead of adding to it
DictReplaceAll(dict, cs) ==
    [k \in DOMAIN dict \cup {GetBasicSymbols(c) : c \in cs} |->
        IF \E c \in cs : GetBasicSymbols(c) = k
        THEN {c \in cs : GetBasicSymbols(c) = k}
        ELSE dict[k]]

\* symbols_to_constraints[_get_basic_symbols(c)].add(c), on a
\* defaultdict(set), for every c of cs
DictAddAll(dict, cs) ==
    [k \in DOMAIN dict \cup {GetBasicSymbols(c) : c \in cs} |->
        (IF k \in DOMAIN dict THEN dict[k] ELSE {}) \cup {c \in cs : GetBasicSymbols(c) = k}]

\* set.as_relational(dummy) for one solution set: Eq(dummy, x) for a single
\* point; for a half line the comparison with its finite end (the comparison
\* with its infinite end evaluates to true and leaves the conjunction)
AsRelational(set) ==
    IF set.kind = "FiniteSet" THEN {MkRel("=", Sym(Dummy), set.start)}
    ELSE IF set.kind # "Interval" THEN {}
    ELSE IF IsInf(set.start)
    THEN {MkRel(IF set.right_open THEN "<" ELSE "<=", Sym(Dummy), set.end)}
    ELSE {MkRel(IF set.left_open THEN "<" ELSE "<=", set.start, Sym(Dummy))}

\* whether the intersection of a single point with another set stays
\* unevaluated: SymPy's contains() cannot decide the point's membership
PointUndecided(point, set) == CompareExpr(point, FiniteEnd(set)) = "unknown"

\* whether the intersection of two half lines is a conjunction of two atoms:
\* an unevaluated Intersection when an end is symbolic, and with numeric ends
\* a bounded interval (opposite directions, lower end below upper end)
HalfLinesConjoin(set1, set2) ==
    \/ ~(IsConstant(FiniteEnd(set1)) /\ IsConstant(FiniteEnd(set2)))
    \/ /\ IsInf(set1.start) /\ ~IsInf(set2.start)
       /\ CompareExpr(FiniteEnd(set2), FiniteEnd(set1)) = "lt"
    \/ /\ ~IsInf(set1.start) /\ IsInf(set2.start)
       /\ CompareExpr(FiniteEnd(set1), FiniteEnd(set2)) = "lt"

\* The atoms of simplify_logic(set1.intersect(set2).as_relational(dummy),
\* form="dnf") when that is a conjunction (And), {} when it is a single
\* relation, true or false.
DummyRelationAtoms(set1, set2) ==
    IF set1.kind = "Other" \/ set2.kind = "Other" THEN {}
    ELSE IF set1.kind = "FiniteSet"
    THEN (IF PointUndecided(set1.start, set2)
          THEN AsRelational(set1) \cup AsRelational(set2) ELSE {})
    ELSE IF set2.kind = "FiniteSet"
    THEN (IF PointUndecided(set2.start, set1)
          THEN AsRelational(set1) \cup AsRelational(set2) ELSE {})
    ELSE IF HalfLinesConjoin(set1, set2)
    THEN AsRelational(set1) \cup AsRelational(set2)
    ELSE {}

\* the orders in which a sequence can list the members of S
Orderings(S) ==
    {f \in [1..Cardinality(S) -> S] : \A i, j \in 1..Cardinality(S) : i # j => f[i] # f[j]}

\* the relations the pairs of sets give, the atoms in one order
DerivedOnce(sets) ==
    UNION {AndDummyToConstraints(CHOOSE args \in Orderings(DummyRelationAtoms(t[1], t[2])) : TRUE) :
              t \in UNION {{u \in sets[x] \X sets[x] : u[1] # u[2]} : x \in Symbols}}

\* sets with the solution sets of the relations derived from its pairs added
SetsWithDerived(sets) ==
    [x \in Symbols |->
        sets[x] \cup {Solveset(r, x) : r \in {u \in DerivedOnce(sets) : x \in GetBasicSymbols(u)}}]

\* AllPairs pairing the solution sets of the derived relations as well
AllPairsWithDerived(sets) ==
    {q \in Symbols \X SUBSET (UNION {SetsWithDerived(sets)[x] : x \in Symbols}) :
        q[2] \subseteq SetsWithDerived(sets)[q[1]] /\ Cardinality(q[2]) = 2}

\* combinations(symbol_sets, 2) for every symbol: the pairs Pass 2 visits
AllPairs(sets) ==
    {q \in Symbols \X SUBSET (UNION {sets[x] : x \in Symbols}) :
        q[2] \subseteq sets[q[1]] /\ Cardinality(q[2]) = 2}

\* ------------------------------------------------------ disjunctions
\* A branch of a disjunction in disjunctive normal form: a conjunction
\* (isinstance(arg, And)) with its atoms in the order And.args lists them, or
\* a single atom.
AndBranch(args) == [is_and |-> TRUE, args |-> args]
AtomBranch(atom) == [is_and |-> FALSE, args |-> <<atom>>]

\* the loop of lines 208-216 over dummy_relation.args, from the list
\* operations on: a conjunction adds what _and_dummy_to_constraints returns
\* for it, another branch empties the list and ends the loop
RECURSIVE AndOperations(_, _)
AndOperations(args, operations) ==
    IF args = <<>> THEN operations
    ELSE IF Head(args).is_and
    THEN AndOperations(Tail(args), operations \cup AndDummyToConstraints(Head(args).args))
    ELSE {}

\* the one argument left, or the disjunction of several
OrOfRest(rest) ==
    IF rest = {} THEN BoolRel(FALSE)
    ELSE IF Cardinality(rest) = 1 THEN CHOOSE r \in rest : TRUE
    ELSE [op |-> "or", args |-> rest]

\* Or(*operations): true when an argument is true, arguments that are false
\* dropped, the argument itself when one is left
Or(operations) ==
    IF BoolRel(TRUE) \in operations THEN BoolRel(TRUE)
    ELSE OrOfRest(operations \ {BoolRel(FALSE)})

\* _get_basic_symbols(constraint) for a relation or a disjunction of relations
GetBasicSymbolsOr(constraint) ==
    IF constraint.op = "or" THEN UNION {GetBasicSymbols(r) : r \in constraint.args}
    ELSE GetBasicSymbols(constraint)

\* lines 217-221: the (key, constraint) added to symbols_to_constraints
AddDisjunction(operations) ==
    IF operations = {} THEN {}
    ELSE {[symbols |-> GetBasicSymbolsOr(Or(operations)), constraint |-> Or(operations)]}

\* ------------------------------------------------------- validate_mapping
\* A mapping is a function from some of the symbols' names to {} (the value
\* None) or {v} (the number v).
None == {}

\* mapping.get(key)
MappingGet(mapping, key) == IF key \in DOMAIN mapping THEN mapping[key] ELSE None

\* the number held by a cell that is not None
ValueOf(cell) == CHOOSE v \in cell : TRUE

\* values_subs as an assignment: the symbols of keys get their value in mapping
ValuesSubs(keys, mapping) ==
    [s \in Symbols |-> IF s \in keys THEN ValueOf(mapping[s]) ELSE 0]

NoError == [raised |-> "none", values |-> <<>>, unsatisfied_booleans |-> {}]
ValidationError(values, unsatisfied_booleans) ==
    [raised |-> "ValidationError", values |-> values,
     unsatisfied_booleans |-> unsatisfied_booleans]

\* MissingKey with every falsy value (None, 0) taken for a missing one
MissingKeyFalsy(mapping, key) ==
    MappingGet(mapping, key) = None \/ MappingGet(mapping, key) = {0}

\* mapping.get(str(key)) is None
MissingKey(mapping, key) == MappingGet(mapping, key) = None

\* [operation for operation in operations if not operation.subs(values_subs)]
Unsatisfied(operations, subs) == {operation \in operations : ~EvalRel(operation, subs)}

RaiseIfAny(values, unsatisfied_expressions) ==
    IF unsatisfied_expressions # {}
    THEN ValidationError(values, unsatisfied_expressions)
    ELSE NoError

\* ValidateValidation without the early return, a missing value read as 0
ValidateValidationNoSkip(validation, mapping) ==
    RaiseIfAny([k \in validation.keys |-> MappingGet(mapping, k)],
               Unsatisfied(validation.operations,
                           [s \in Symbols |->
                               IF s \in validation.keys /\ ~MissingKey(mapping, s)
                               THEN ValueOf(mapping[s]) ELSE 0]))

\* validate_mapping(validation, mapping), the Validation branch: what it
\* raises, NoError when it returns
ValidateValidation(validation, mapping) ==
    IF \E key \in validation.keys : MissingKey(mapping, key) THEN NoError
    ELSE RaiseIfAny([k \in validation.keys |-> MappingGet(mapping, k)],
                    Unsatisfied(validation.operations,
                                ValuesSubs(validation.keys, mapping)))

\* the operations the Validation branch substitutes values in
Substituted(validation, mapping) ==
    IF \E key \in validation.keys : MissingKey(mapping, key) THEN {}
    ELSE validation.operations

\* ValidationErrors stopping at the first Validation that fails
ValidationErrorsFirstOnly(vals, mapping) ==
    IF \A v \in vals : ValidateValidation(v, mapping) = NoError THEN {}
    ELSE {ValidateValidation(CHOOSE v \in vals : ValidateValidation(v, mapping) # NoError,
                             mapping)}

\* the Constraints branch: the ValidationErrors collected over
\* constraints.validations
ValidationErrors(vals, mapping) ==
    {ValidateValidation(v, mapping) : v \in vals} \ {NoError}

\* --------------------------------------------------------- pandas tables
\* A table (DataFrame of floats) is a sequence of rows, a row a function from
\* the column names to cells; a cell is NaN or holds one number, a fraction
\* n / d in lowest terms with d > 0.
NaN == {}
Frac(n, d) == [n |-> n \div Gcd(n, d), d |-> d \div Gcd(n, d)]
Num(k) == {[n |-> k, d |-> 1]}
TableColumns == {"a", "b", "c"}

\* the value a term of a linear expression reads: the cell's when the
\* expression mentions the column
TermValue(x, row, s) == IF x.num[s] = 0 THEN [n |-> 0, d |-> 1] ELSE ValueOf(row[s])

LinValue(x, va, vb, vc, vd) ==
    Frac(x.num["one"] * va.d * vb.d * vc.d * vd.d + x.num["a"] * va.n * vb.d * vc.d * vd.d
           + x.num["b"] * vb.n * va.d * vc.d * vd.d + x.num["c"] * vc.n * va.d * vb.d * vd.d
           + x.num["d"] * vd.n * va.d * vb.d * vc.d,
         x.den * va.d * vb.d * vc.d * vd.d)

\* _lambdify(columns, expr)(*columns of the row): the value of a finite
\* linear expression over the columns a, b, c, d on one row
EvalExprRow(x, row) ==
    LinValue(x, TermValue(x, row, "a"), TermValue(x, row, "b"), TermValue(x, row, "c"),
             TermValue(x, row, "d"))

CompareFracs(l, h) == CompareInts(l.n * h.d, h.n * l.d)

\* _lambdify(columns, operation)(...) on one row: whether the relation holds
EvalRelRow(r, row) ==
    IF IsBoolRel(r) THEN r.op = "true"
    ELSE HoldsFor(r.op, CompareFracs(EvalExprRow(r.lhs, row), EvalExprRow(r.rhs, row)))

\* ~df[columns_str].isna().any(axis="columns") on one row
Relevant(keys, row) == \A k \in keys : row[k] # NaN

\* the cell of check's result for one operation and one row: 1.0, 0.0 or NaN
CheckCell(keys, operation, row) ==
    IF ~Relevant(keys, row) THEN NaN
    ELSE IF EvalRelRow(operation, row) THEN Num(1) ELSE Num(0)

\* check(validation, df), lines 155-200: the table it returns, one column per
\* operation, the rows by their label in df. For an operation without a free
\* symbol _lambdify(columns, operation)(...) gives a Python scalar, which has
\* no astype.
CheckValidation(validation, df) ==
    IF \E operation \in validation.operations : GetBasicSymbols(operation) = {}
    THEN [raised |-> "AttributeError"]
    ELSE [raised |-> "none", nlevels |-> 1,
          columns |-> validation.operations,
          cells |-> [operation \in validation.operations |->
                        [i \in DOMAIN df |-> CheckCell(validation.keys, operation, df[i])]]]

\* the columns (validation.keys, operation) of check(constraints, df)
ConstraintsColumns(vals) == UNION {{<<v.keys, operation>> : operation \in v.operations} : v \in vals}

\* check(constraints, df), lines 202-209
CheckConstraints(vals, df) ==
    IF vals = {} THEN [raised |-> "ValueError", message |-> <<"No objects to concatenate">>]
    ELSE IF \E v \in vals : CheckValidation(v, df).raised # "none"
    THEN [raised |-> "AttributeError"]
    ELSE [raised |-> "none", nlevels |-> 2,
          columns |-> ConstraintsColumns(vals),
          cells |-> [q \in ConstraintsColumns(vals) |->
                        [i \in DOMAIN df |-> CheckCell(q[1], q[2], df[i])]]]

\* a ValueError whose message leaves the object out
InvalidConstraintsNoValue(value) ==
    [raised |-> "ValueError", message |-> <<"Invalid constraints given: ">>]

\* raise ValueError(f"Invalid constraints given: {constraints}")
InvalidConstraints(value) ==
    [raised |-> "ValueError", message |-> <<"Invalid constraints given: ", value>>]

\* pandas.DataFrame(): a check result without rows and columns
EmptyCheckResult == [raised |-> "none", nlevels |-> 1, columns |-> {}, cells |-> <<>>]

\* DataFrame.empty: no row or no column
IsEmptyResult(check_result, df) == check_result.columns = {} \/ Len(df) = 0

\* ~check_result[keys].fillna(1.0).all(axis="columns") on row i: some column
\* of the block holds 0.0
BlockFails(check_result, block, i) ==
    \E q \in block : check_result.cells[q][i] = Num(0)

\* the columns of check_result[keys]
Block(check_result, keys) == {q \in check_result.columns : q[1] = keys}

\* check_result.columns.get_level_values(0)
Keysets(check_result) == {q[1] : q \in check_result.columns}

\* the loop blanking also where a column of the block holds NaN
BlankedCellNaNFails(check_result, df, fill, i, col) ==
    IF \E keys \in Keysets(check_result) :
          col \in keys /\ \E q \in Block(check_result, keys) : check_result.cells[q][i] # Num(1)
    THEN fill ELSE df[i][col]

\* the loop of lines 285-289 on one cell: fill when a block whose keys hold
\* the column fails in the row
BlankedCell(check_result, df, fill, i, col) ==
    IF \E keys \in Keysets(check_result) :
          col \in keys /\ BlockFails(check_result, Block(check_result, keys), i)
    THEN fill ELSE df[i][col]

\* lines 271-274 on one cell: the columns are the free symbols of the one
\* relation that labels the check result
BlankedCellSingle(check_result, df, fill, i, col) ==
    IF \E r \in check_result.columns :
          col \in GetBasicSymbols(r) /\ BlockFails(check_result, check_result.columns, i)
    THEN fill ELSE df[i][col]

\* set_invalid_all(check_result, df, fill), lines 262-290: the outcome and
\* the values its result holds
SetInvalidAllTable(check_result, df, fill) ==
    IF IsEmptyResult(check_result, df) THEN [raised |-> "none", table |-> df]
    ELSE IF check_result.nlevels = 1
    THEN IF Cardinality(check_result.columns) # 1
         THEN [raised |-> "ValueError", message |-> <<"can only convert an array of size 1 to a Python scalar">>]
         ELSE [raised |-> "none",
               table |-> [i \in DOMAIN df |-> [col \in TableColumns |->
                             BlankedCellSingle(check_result, df, fill, i, col)]]]
    ELSE [raised |-> "none",
          table |-> [i \in DOMAIN df |-> [col \in TableColumns |->
                        BlankedCell(check_result, df, fill, i, col)]]]

\* the mask of lines 354-357 / 372-375 on one row
Imputable(imputation, row) ==
    Relevant(imputation.keys, row) /\ row[imputation.target_key] = NaN

\* the assignment made wherever the sources are present
ImputeRowOverwriting(imputation, row) ==
    IF Relevant(imputation.keys, row)
    THEN [row EXCEPT ![imputation.target_key] = {EvalExprRow(imputation.operation, row)}]
    ELSE row

\* one assignment result.loc[mask, target] = expression(columns) on one row
ImputeRow(imputation, row) ==
    IF Imputable(imputation, row)
    THEN [row EXCEPT ![imputation.target_key] = {EvalExprRow(imputation.operation, row)}]
    ELSE row

\* impute(imputation, df), lines 349-363: the values of the result
ImputeImputation(imputation, table) ==
    [i \in DOMAIN table |-> ImputeRow(imputation, table[i])]

\* the loop of lines 368-378 over the imputations listed in order
RECURSIVE ImputeAll(_, _)
ImputeAll(order, table) ==
    IF order = <<>> THEN table
    ELSE ImputeAll(Tail(order), ImputeImputation(Head(order), table))

\* ------------------------------------------------------- pandas symbols
\* A str is a sequence of characters, a name a str without whitespace.
RECURSIVE SplitFrom(_, _, _)
SplitFrom(str, word, words) ==
    IF str = <<>> THEN (IF word = <<>> THEN words ELSE Append(words, word))
    ELSE IF Head(str) = " "
    THEN SplitFrom(Tail(str), <<>>, IF word = <<>> THEN words ELSE Append(words, word))
    ELSE SplitFrom(Tail(str), Append(word, Head(str)), words)

\* str.split(): the words between runs of whitespace
StrSplit(str) == SplitFrom(str, <<>>, <<>>)

\* the storage types: dtypes of the kinds pandas.api.types tells apart, and
\* one (object) of no kind symbols supports
Dtypes == {"uint8", "int64", "float64", "complex128", "object"}
IsUnsignedIntegerDtype(dtype) == dtype = "uint8"
IsIntegerDtype(dtype) == dtype \in {"uint8", "int64"}
IsFloatDtype(dtype) == dtype = "float64"
IsComplexDtype(dtype) == dtype = "complex128"

\* the chain testing the integer kind before the unsigned one
AssumptionsIntegerFirst(dtype) ==
    IF IsIntegerDtype(dtype) THEN {"integer"}
    ELSE IF IsUnsignedIntegerDtype(dtype) THEN {"integer", "nonnegative"}
    ELSE IF IsFloatDtype(dtype) THEN {"real"}
    ELSE IF IsComplexDtype(dtype) THEN {"complex"}
    ELSE None

\* the assumptions of lines 76-86, None when the dtype is of no kind tested
SymbolAssumptions(dtype) ==
    IF IsUnsignedIntegerDtype(dtype) THEN {"integer", "nonnegative"}
    ELSE IF IsIntegerDtype(dtype) THEN {"integer"}
    ELSE IF IsFloatDtype(dtype) THEN {"real"}
    ELSE IF IsComplexDtype(dtype) THEN {"complex"}
    ELSE None

\* Symbol(symbol, **assumptions)
Symbol(name, assumptions) == [name |-> name, assumptions |-> assumptions]

ColumnDoesNotExist(name, columns) ==
    [raised |-> "ValueError",
     message |-> <<"Column ", name, " does not exist in the dataframe provided. Available columns are ",
                   columns, ".">>]
UnsupportedDataType(dtype, name) ==
    [raised |-> "ValueError",
     message |-> <<"Unsupported data type ", dtype, " in column ", name, ".">>]
NoSymbolsGiven == [raised |-> "ValueError", message |-> <<"No symbols given.">>]

\* the loop of lines 69-93: what it raises, or the list result it builds
RECURSIVE SymbolsLoop(_, _, _)
SymbolsLoop(dtypes, names, result) ==
    IF names = <<>> THEN [raised |-> "none", result |-> result]
    ELSE IF Head(names) \notin DOMAIN dtypes
    THEN ColumnDoesNotExist(Head(names), DOMAIN dtypes)
    ELSE IF SymbolAssumptions(dtypes[Head(names)]) = None
    THEN UnsupportedDataType(dtypes[Head(names)], Head(names))
    ELSE SymbolsLoop(dtypes, Tail(names),
                     Append(result, Symbol(Head(names), SymbolAssumptions(dtypes[Head(names)]))))

\* match len(result), lines 95-101
SymbolsReturn(loop) ==
    IF loop.raised # "none" THEN loop
    ELSE IF Len(loop.result) = 0 THEN NoSymbolsGiven
    ELSE [raised |-> "none", single |-> Len(loop.result) = 1, symbols |-> loop.result]

\* symbols = symbol_list if isinstance(symbol_list, list) else symbol_list.split()
SymbolNames(list) == IF list.is_list THEN list.value ELSE StrSplit(list.value)

\* ------------------------------------------------------- symbol domains
\* The numbers membership in a domain is read on: the halves k/2 up to MaxVal
\* in size (re2 is twice the real part) and the imaginary unit.
Numbers ==
    {[re2 |-> k, imaginary |-> FALSE] : k \in (-2 * MaxVal)..(2 * MaxVal)}
    \cup {[re2 |-> 0, imaginary |-> TRUE]}

\* _assumption_domain[assumption]: S.Reals, S.Complexes, S.Integers,
\* Interval(-oo, 0) and Interval(0, oo), both closed at 0
AssumptionDomain(assumption) ==
    CASE assumption = "real" -> {x \in Numbers : ~x.imaginary}
      [] assumption = "complex" -> Numbers
      [] assumption = "integer" -> {x \in Numbers : ~x.imaginary /\ x.re2 % 2 = 0}
      [] assumption = "negative" -> {x \in Numbers : ~x.imaginary /\ x.re2 <= 0}
      [] assumption = "positive" -> {x \in Numbers : ~x.imaginary /\ x.re2 >= 0}

\* symbol.assumptions0 for a symbol declared with the assumptions given (each
\* True): the facts SymPy derives from them, among those that have an entry in
\* _assumption_domain, and "nonnegative", which has none.  An integer or a
\* non-negative number is real, a real number is complex, a non-negative
\* number is not negative; whether it is positive is not known.
Assumptions0(declared) ==
    [fact \in {f \in {"complex", "real", "integer", "nonnegative", "negative"} :
                 \/ f \in declared
                 \/ f = "complex" /\ declared \cap {"real", "integer", "nonnegative"} # {}
                 \/ f = "real" /\ declared \cap {"integer", "nonnegative"} # {}
                 \/ f = "negative" /\ "nonnegative" \in declared} |->
        fact # "negative"]

\* the loop of _get_symbol_domain over the items of assumptions0 in the order
\* given, from result on
RECURSIVE GetSymbolDomain(_, _, _)
GetSymbolDomain(assumptions0, items, result) ==
    IF items = <<>> THEN result
    ELSE IF Head(items) \notin {"real", "complex", "integer", "negative", "positive"}
    THEN GetSymbolDomain(assumptions0, Tail(items), result)
    ELSE IF assumptions0[Head(items)]
    THEN GetSymbolDomain(assumptions0, Tail(items), result \cap AssumptionDomain(Head(items)))
    ELSE GetSymbolDomain(assumptions0, Tail(items), result \ AssumptionDomain(Head(items)))

\* ------------------------------------------------------------------ state
VARIABLES
    constraints,            \* Constraints.__init__: the relations given, in order
    pc,                     \* "idle" | "pass1" | "pass2" | "done"
    next_constraint,        \* the index of the relation the first loop takes next
    symbol_to_sets,         \* symbol -> the set of its solution sets
    symbols_to_constraints, \* frozenset of symbols -> set of relations
    imputations,            \* self._imputations, as a bag
    visited_pairs,          \* the (symbol, {set1, set2}) the second loop has visited
    validations,            \* self._validations, as a set
    and_args,          \* _and_dummy_to_constraints: and_relation.args
    elim_pc,           \* "idle" | "call" | "done" | "raised"
    useful_relations,  \* its list of classified atoms
    elim_constraints,  \* the set it returns
    elim_warnings,     \* the atoms it has warned of, in order
    map_constraints,   \* validate_mapping: its first argument
    mapping,           \* its second argument
    map_pc,            \* "idle" | "call" | "done"
    map_substituted,   \* the operations it has substituted values in
    map_result,        \* what it raised, NoError when it returned
    frames,            \* the DataFrame objects that exist, by reference
    tbl_pc,            \* "idle" | "start" | "checked" | "blanked" | "done" | "raised"
    tbl_constraints,   \* the first argument of the latest check or impute
    check_result,      \* what check returned or raised; then the check result
                       \* given to set_invalid_all
    fill,              \* the fill given to set_invalid_all
    set_invalid_result, \* what set_invalid_all returned (a reference) or raised
    impute_source,     \* the reference of the table given to impute
    impute_order,      \* constraints.imputations in the order of the list
    impute_result,     \* what impute returned (a reference) or raised
    imputed_mapping,   \* what impute_mapping returned, <<>> before
    sym_dtypes,        \* symbols(df, symbol_list): df.dtypes, column -> dtype
    symbol_list,       \* its second argument, a str or a list of names
    sym_pc,            \* "idle" | "call" | "done"
    sym_outcome,       \* what it returned or raised
    domain_symbol,     \* _get_symbol_domain(symbol): its argument
    dom_pc,            \* "idle" | "done"
    symbol_domain,     \* the domain it returned
    or_args,           \* the Or branch of Pass 2: dummy_relation.args
    or_pc,             \* "idle" | "call" | "done"
    and_operations,    \* its list and_operations, without order
    or_constraints     \* what it adds to symbols_to_constraints

elimVars == <<and_args, elim_pc, useful_relations, elim_constraints, elim_warnings>>
mapVars == <<map_constraints, mapping, map_pc, map_substituted, map_result>>
engineVars == <<constraints, pc, next_constraint, symbol_to_sets, symbols_to_constraints,
                imputations, visited_pairs, validations>>
tableVars == <<frames, tbl_pc, tbl_constraints, check_result, fill, set_invalid_result,
               impute_source, impute_order, impute_result, imputed_mapping>>
symVars == <<sym_dtypes, symbol_list, sym_pc, sym_outcome>>
domVars == <<domain_symbol, dom_pc, symbol_domain>>
orVars == <<or_args, or_pc, and_operations, or_constraints>>
vars == <<engineVars, elimVars, mapVars, tableVars, symVars, domVars, orVars>>

NotCalled == [raised |-> "none", single |-> FALSE, symbols |-> <<>>]

SymIdle ==
    /\ sym_dtypes = <<>>
    /\ symbol_list = [is_list |-> TRUE, value |-> <<>>]
    /\ sym_pc = "idle"
    /\ sym_outcome = NotCalled

DomIdle ==
    /\ domain_symbol = Symbol(<<>>, {})
    /\ dom_pc = "idle"
    /\ symbol_domain = {}

OrIdle ==
    /\ or_args = <<>>
    /\ or_pc = "idle"
    /\ and_operations = {}
    /\ or_constraints = {}

\* no call yet: nothing returned, nothing raised
NoResult == [raised |-> "none", ref |-> 0]

TableIdle ==
    /\ frames = <<>>
    /\ tbl_pc = "idle"
    /\ tbl_constraints = [type |-> "None"]
    /\ check_result = EmptyCheckResult
    /\ fill = NaN
    /\ set_invalid_result = NoResult
    /\ impute_source = 0
    /\ impute_order = <<>>
    /\ impute_result = NoResult
    /\ imputed_mapping = <<>>

ElimIdle ==
    /\ and_args = <<>>
    /\ elim_pc = "idle"
    /\ useful_relations = <<>>
    /\ elim_constraints = {}
    /\ elim_warnings = <<>>

MapIdle ==
    /\ map_constraints = [type |-> "Other", validations |-> {}]
    /\ mapping = <<>>
    /\ map_pc = "idle"
    /\ map_substituted = {}
    /\ map_result = NoError

\* ------------------------------------------------- Constraints.__init__
\* The relations a caller gives: a symbol compared with a linear expression of
\* other symbols or with a number.
InputForms ==
    [a |-> {Scale(2, Sym("b")), Add(Sym("b"), Sym("c")), Const(3)},
     c |-> {Add(Sym("b"), Const(3)), Sub(Sym("d"), Sym("e")), Const(3)}]

InputRelations ==
    UNION {{MkRel(op, Sym(v), x) : op \in RelOps, x \in InputForms[v]} :
             v \in DOMAIN InputForms}

EngineIdle ==
    /\ constraints = <<>>
    /\ pc = "idle"
    /\ next_constraint = 0
    /\ symbol_to_sets = [sym \in Symbols |-> {}]
    /\ symbols_to_constraints = <<>>
    /\ imputations = EmptyBag
    /\ visited_pairs = {}
    /\ validations = {}

\* the state on entry of Constraints.__init__(constraints), lines 178-188
EngineStart(inputs) ==
    /\ constraints \in inputs
    /\ pc = "pass1"
    /\ next_constraint = 1
    /\ symbol_to_sets = [sym \in Symbols |-> {}]
    /\ symbols_to_constraints = <<>>
    /\ imputations = EmptyBag
    /\ visited_pairs = {}
    /\ validations = {}

EngineInit == EngineStart(UNION {[1..n -> InputRelations] : n \in 0..MaxRelations})

Pass1Turn(constraint, symbols) ==
    /\ symbols_to_constraints' = DictAddAll(symbols_to_constraints, {constraint})
    /\ symbol_to_sets' =
          [sym \in Symbols |->
              IF sym \in symbols
              THEN symbol_to_sets[sym] \cup {Solveset(constraint, sym)}
              ELSE symbol_to_sets[sym]]
    /\ imputations' = imputations (+) HarvestImputations({constraint})

\* one turn of "for constraint in constraints" (lines 190-199)
Pass1 ==
    /\ pc = "pass1"
    /\ next_constraint <= Len(constraints)
    /\ Pass1Turn(constraints[next_constraint], GetBasicSymbols(constraints[next_constraint]))
    /\ next_constraint' = next_constraint + 1
    /\ UNCHANGED <<constraints, pc, visited_pairs, validations, elimVars, mapVars, tableVars, symVars, domVars, orVars>>

\* the first loop is over
Pass1Done ==
    /\ pc = "pass1"
    /\ next_constraint > Len(constraints)
    /\ pc' = "pass2"
    /\ UNCHANGED <<constraints, next_constraint, symbol_to_sets, symbols_to_constraints,
                   imputations, visited_pairs, validations, elimVars, mapVars, tableVars, symVars, domVars, orVars>>

\* Pass2Add without the second-level harvest
Pass2AddNoHarvest(new) ==
    /\ symbols_to_constraints' = DictAddAll(symbols_to_constraints, new)
    /\ imputations' = imputations

\* the elif branch (lines 222-234) for the relations new that
\* _and_dummy_to_constraints returned
Pass2Add(new) ==
    /\ symbols_to_constraints' = DictAddAll(symbols_to_constraints, new)
    /\ imputations' = imputations (+) HarvestImputations(new)

\* one turn of "for set1, set2 in combinations(symbol_sets, 2)" (lines 202-234),
\* the pairs taken in any order and And.args listing the atoms in any order.
\* In the linear fragment dummy_relation is never an Or; when it is not an And
\* (fewer than two atoms) the turn adds nothing.
Pass2 ==
    /\ pc = "pass2"
    /\ \E q \in AllPairs(symbol_to_sets) \ visited_pairs :
        \E set1 \in q[2] : \E set2 \in q[2] \ {set1} :
        \E args \in Orderings(DummyRelationAtoms(set1, set2)) :
            /\ Pass2Add(AndDummyToConstraints(args))
            /\ visited_pairs' = visited_pairs \cup {q}
    /\ UNCHANGED <<constraints, pc, next_constraint, symbol_to_sets, validations, elimVars, mapVars, tableVars, symVars, domVars, orVars>>

\* self._validations = [Validation(...) for ... in symbols_to_constraints.items()]
BuildValidations ==
    /\ pc = "pass2"
    /\ AllPairs(symbol_to_sets) = visited_pairs
    /\ validations' = {Validation(k, symbols_to_constraints[k]) : k \in DOMAIN symbols_to_constraints}
    /\ pc' = "done"
    /\ UNCHANGED <<constraints, next_constraint, symbol_to_sets, symbols_to_constraints,
                   imputations, visited_pairs, elimVars, mapVars, tableVars, symVars, domVars, orVars>>

Init == EngineInit /\ ElimIdle /\ MapIdle /\ TableIdle /\ SymIdle /\ DomIdle /\ OrIdle
Next == Pass1 \/ Pass1Done \/ Pass2 \/ BuildValidations
Spec == Init /\ [][Next]_vars

\* ----------------------------------------- _and_dummy_to_constraints alone
\* The atoms a conjunction over the placeholder is made of: what as_relational
\* gives for a single point (Eq(p, x)) and for a half line (p < x, p <= x,
\* x < p, x <= p), x a symbolic expression or a number.
AtomExprs ==
    {Sym("b"), Add(Sym("b"), Const(3)), Sub(Sym("d"), Sym("e")), Const(3)}

DummyAtoms ==
    {MkRel("=", Sym(Dummy), x) : x \in AtomExprs}
    \cup {MkRel(op, Sym(Dummy), x) : op \in {"<", "<="}, x \in AtomExprs}
    \cup {MkRel(op, x, Sym(Dummy)) : op \in {"<", "<="}, x \in AtomExprs}

\* the sequences of lo..hi distinct members of S (And keeps its arguments
\* without duplicates)
SeqsUpTo(S, lo, hi) ==
    UNION {{f \in [1..n -> S] : \A i, j \in 1..n : i # j => f[i] # f[j]} : n \in lo..hi}

ElimInit ==
    /\ EngineIdle
    /\ MapIdle
    /\ TableIdle
    /\ SymIdle
    /\ DomIdle
    /\ OrIdle
    /\ and_args \in SeqsUpTo(DummyAtoms, 2, MaxAtoms)
    /\ elim_pc = "call"
    /\ useful_relations = <<>>
    /\ elim_constraints = {}
    /\ elim_warnings = <<>>

\* the call _and_dummy_to_constraints(And(*and_args), dummy): it returns, or
\* the TypeError of an atom leaves it in the first loop
ElimCall ==
    /\ elim_pc = "call"
    /\ elim_warnings' = Warned(and_args)
    /\ IF Len(BeforeTypeError(and_args)) < Len(and_args)
       THEN /\ elim_pc' = "raised"
            /\ useful_relations' = UsefulRelations(BeforeTypeError(and_args))
            /\ elim_constraints' = {}
       ELSE /\ elim_pc' = "done"
            /\ useful_relations' = UsefulRelations(and_args)
            /\ elim_constraints' = AndDummyToConstraints(and_args)
    /\ UNCHANGED <<and_args, engineVars, mapVars, tableVars, symVars, domVars, orVars>>

SpecElim == ElimInit /\ [][ElimCall]_vars

\* ------------------------- _and_dummy_to_constraints, atoms of any kind
\* Conjunctions that also hold atoms the classifier cannot take: one without
\* the placeholder (b < c), and atoms whose solution set is a union of two
\* half lines (p**2 > 4), two points (Eq(p**2, 4)), a set solveset could not
\* evaluate (a ConditionSet), or the intersection of a single point with the
\* domain, written in either order.
AnyAtoms ==
    {MkRel("=", Sym(Dummy), Sym("b")), MkRel("<", Sym(Dummy), Sym("c")),
     MkRel("<=", Sub(Sym("d"), Sym("e")), Sym(Dummy)),
     MkRel("<", Add(Sym("b"), Const(3)), Sym(Dummy)),
     MkRel("<", Sym("b"), Sym("c")),
     OtherAtom(Union(Interval(NegInf, Const(-2), TRUE, TRUE), Interval(Const(2), PosInf, TRUE, TRUE))),
     OtherAtom(FiniteSetOfTwo(Const(-2), Const(2))),
     OtherAtom(OtherSet),
     OtherAtom(Intersection(OtherSet, FiniteSet(Sym("e")))),
     OtherAtom(Intersection(FiniteSet(Sym("e")), OtherSet))}

AtomsInit ==
    /\ EngineIdle
    /\ MapIdle
    /\ TableIdle
    /\ SymIdle
    /\ DomIdle
    /\ OrIdle
    /\ and_args \in SeqsUpTo(AnyAtoms, 2, MaxAtoms)
    /\ elim_pc = "call"
    /\ useful_relations = <<>>
    /\ elim_constraints = {}
    /\ elim_warnings = <<>>

SpecAtoms == AtomsInit /\ [][ElimCall]_vars

\* ------------------------------------------ the Or branch of Pass 2 alone
\* The disjunctions over the placeholder: MaxBranches branches at most, a
\* branch a conjunction of two bounds or equalities of the placeholder with b
\* and c, or one such atom.
OrAtoms ==
    {MkRel("=", Sym(Dummy), Sym("b")), MkRel("<", Sym(Dummy), Sym("b")),
     MkRel("<=", Sym("b"), Sym(Dummy)), MkRel("=", Sym(Dummy), Sym("c")),
     MkRel("<", Sym(Dummy), Sym("c")), MkRel("<=", Sym("c"), Sym(Dummy))}

Branches ==
    {AndBranch(args) : args \in SeqsUpTo(OrAtoms, 2, 2)} \cup {AtomBranch(atom) : atom \in OrAtoms}

OrInit ==
    /\ EngineIdle
    /\ ElimIdle
    /\ MapIdle
    /\ TableIdle
    /\ SymIdle
    /\ DomIdle
    /\ or_args \in SeqsUpTo(Branches, 2, MaxBranches)
    /\ or_pc = "call"
    /\ and_operations = {}
    /\ or_constraints = {}

\* the branch "if isinstance(dummy_relation, Or)" of one turn of Pass 2,
\* lines 207-221
Pass2Or ==
    /\ or_pc = "call"
    /\ and_operations' = AndOperations(or_args, {})
    /\ or_constraints' = AddDisjunction(AndOperations(or_args, {}))
    /\ or_pc' = "done"
    /\ UNCHANGED <<or_args, engineVars, elimVars, mapVars, tableVars, symVars, domVars>>

SpecOr == OrInit /\ [][Pass2Or]_vars

\* ------------------------------------------------------ symbols(df, names)
\* Tables with the columns "a", "b" or some of them, of any storage type;
\* names written with the characters a and b, given as a str of up to
\* MaxStrLen characters or as a list of up to MaxNames names.
ColumnNames == {<<"a">>, <<"b">>}
Names == ColumnNames \cup {<<"a", "b">>}
StrArguments ==
    {[is_list |-> FALSE, value |-> str] :
        str \in UNION {[1..n -> {"a", "b", " "}] : n \in 0..MaxStrLen}}
ListArguments ==
    {[is_list |-> TRUE, value |-> list] : list \in UNION {[1..n -> Names] : n \in 0..MaxNames}}

SymInit ==
    /\ EngineIdle
    /\ ElimIdle
    /\ MapIdle
    /\ TableIdle
    /\ DomIdle
    /\ OrIdle
    /\ sym_dtypes \in UNION {[D -> Dtypes] : D \in SUBSET ColumnNames}
    /\ \/ symbol_list \in StrArguments
       \/ symbol_list \in ListArguments
    /\ sym_pc = "call"
    /\ sym_outcome = NotCalled

\* symbols(df, symbol_list), lines 67-101
SymbolsCall ==
    /\ sym_pc = "call"
    /\ sym_outcome' = SymbolsReturn(SymbolsLoop(sym_dtypes, SymbolNames(symbol_list), <<>>))
    /\ sym_pc' = "done"
    /\ UNCHANGED <<sym_dtypes, symbol_list, engineVars, elimVars, mapVars, tableVars, domVars, orVars>>

\* _get_symbol_domain(symbol) for one of the symbols returned, as the engine
\* calls it for every symbol of a relation (constraints.py line 195); the dict
\* assumptions0 lists its items in some order
GetSymbolDomainCall ==
    /\ sym_pc = "done"
    /\ sym_outcome.raised = "none"
    /\ dom_pc = "idle"
    /\ \E i \in 1..Len(sym_outcome.symbols) :
        \E items \in Orderings(DOMAIN Assumptions0(sym_outcome.symbols[i].assumptions)) :
            /\ domain_symbol' = sym_outcome.symbols[i]
            /\ symbol_domain' =
                  GetSymbolDomain(Assumptions0(sym_outcome.symbols[i].assumptions), items, Numbers)
    /\ dom_pc' = "done"
    /\ UNCHANGED <<engineVars, elimVars, mapVars, tableVars, symVars, orVars>>

SpecSymbols == SymInit /\ [][SymbolsCall \/ GetSymbolDomainCall]_vars

\* ----------------------------------------------------------- claims, Spec
\* the free variables of a relation, read from its two sides
FreeVariables(r) ==
    IF IsBoolRel(r) THEN {}
    ELSE (FreeSymbolsExpr(r.lhs) \cup FreeSymbolsExpr(r.rhs)) \cap Symbols

Inputs == {constraints[i] : i \in 1..Len(constraints)}
AllOperations == UNION {v.operations : v \in validations}

\* C1: every relation of every Validation, input or derived, has exactly the
\* Validation's keys as its free variables.
C1_KeysAreFreeVariables ==
    \A v \in validations : \A r \in v.operations : FreeVariables(r) = v.keys

\* the engine finished with a derived relation in a group of its own
C1_Witness ==
    /\ pc = "done"
    /\ \E v \in validations :
          /\ v.keys # {}
          /\ v.operations \cap Inputs = {}
          /\ \A r \in v.operations : FreeVariables(r) = v.keys

Assignments == [Symbols -> (-MaxVal)..MaxVal]
CompleteMapping(m) == [s \in Symbols |-> {m[s]}]
SatisfiesInputs(m) == \A i \in 1..Len(constraints) : EvalRel(constraints[i], m)

Shared(r1, r2) == FreeVariables(r1) \cap FreeVariables(r2)

\* the Validations that group the relations rs by their free variables
GroupedByFreeVariables(rs) ==
    {Validation(k, {r \in rs : FreeVariables(r) = k}) : k \in {FreeVariables(r) : r \in rs}}

\* v = e with v < f, v <= f, v > f, v >= f or v = f, v eliminated: the relation
\* between e and f of the same direction and strictness, written either way
Eliminated(e, op, f) ==
    CASE op = "="  -> {[op |-> "=", lhs |-> e, rhs |-> f], [op |-> "=", lhs |-> f, rhs |-> e]}
      [] op = "<"  -> {[op |-> "<", lhs |-> e, rhs |-> f], [op |-> ">", lhs |-> f, rhs |-> e]}
      [] op = "<=" -> {[op |-> "<=", lhs |-> e, rhs |-> f], [op |-> ">=", lhs |-> f, rhs |-> e]}
      [] op = ">"  -> {[op |-> ">", lhs |-> e, rhs |-> f], [op |-> "<", lhs |-> f, rhs |-> e]}
      [] op = ">=" -> {[op |-> ">=", lhs |-> e, rhs |-> f], [op |-> "<=", lhs |-> f, rhs |-> e]}

\* how the relation r bounds v: the operator of "v op f"
BoundOp(r, v) ==
    IF r.op = "=" THEN "="
    ELSE IF IsInf(Solveset(r, v).start)
    THEN (IF Solveset(r, v).right_open THEN "<" ELSE "<=")
    ELSE (IF Solveset(r, v).left_open THEN ">" ELSE ">=")

\* the relations the closure of r1 (v = e) and r2 (v op f) may derive
ExpectedDerived(r1, r2, v) ==
    Eliminated(Solveset(r1, v).start, BoundOp(r2, v), FiniteEnd(Solveset(r2, v)))

\* r1 has the single-point solution v = e, r2 bounds v by f (or has the
\* single-point solution v = f), v is the one symbol they share, and e and f
\* are not both numbers
ClosureCase(r1, r2, v) ==
    /\ r1 # r2
    /\ Shared(r1, r2) = {v}
    /\ r1.op = "="
    /\ CompareExpr(Solveset(r1, v).start, FiniteEnd(Solveset(r2, v))) = "unknown"

\* C3: when two input relations share a variable v, one with the single-point
\* solution v = e and the other bounding v by f, the Validations are exactly
\* the two inputs and one derived relation between e and f with v eliminated,
\* of the direction and strictness of the bound, each under its own free
\* variables, and no other Validation.
C3_ClosureCorrectness ==
    (pc = "done" /\ Len(constraints) = 2) =>
        \A v \in Symbols :
            ClosureCase(constraints[1], constraints[2], v) =>
                \E derived \in ExpectedDerived(constraints[1], constraints[2], v) :
                    validations = GroupedByFreeVariables(Inputs \cup {derived})

\* the same closure holds when the bound f keeps a symbol
ClosureWithSymbolicBound ==
    (pc = "done" /\ Len(constraints) = 2) =>
        \A v \in Symbols :
            (/\ ClosureCase(constraints[1], constraints[2], v)
             /\ ~IsConstant(FiniteEnd(Solveset(constraints[2], v)))) =>
                \E derived \in ExpectedDerived(constraints[1], constraints[2], v) :
                    validations = GroupedByFreeVariables(Inputs \cup {derived})

\* the imputations a relation gives, solved for each of its variables
SolvedForEach(r) ==
    {Imputation(FreeSymbolsExpr(Solveset(r, s).start), s, Solveset(r, s).start) :
        s \in FreeVariables(r)}

\* the derived equality of two equalities that share v
DerivedEquality(r1, r2, v) ==
    [op |-> "=", lhs |-> Solveset(r1, v).start, rhs |-> Solveset(r2, v).start]

SymA == Sym("a")
SymB == Sym("b")
SymC == Sym("c")
SymD == Sym("d")
SymE == Sym("e")

\* the ten imputations of A = B + C, C = D - E
TenImputations ==
    {Imputation({"b", "c"}, "a", Add(SymB, SymC)),
     Imputation({"a", "c"}, "b", Sub(SymA, SymC)),
     Imputation({"a", "b"}, "c", Sub(SymA, SymB)),
     Imputation({"d", "e"}, "c", Sub(SymD, SymE)),
     Imputation({"c", "e"}, "d", Add(SymC, SymE)),
     Imputation({"c", "d"}, "e", Sub(SymD, SymC)),
     Imputation({"b", "d", "e"}, "a", Sub(Add(SymB, SymD), SymE)),
     Imputation({"a", "d", "e"}, "b", Add(Sub(SymA, SymD), SymE)),
     Imputation({"a", "b", "e"}, "d", Add(Sub(SymA, SymB), SymE)),
     Imputation({"a", "b", "d"}, "e", Add(Sub(SymD, SymA), SymB))}

IsExample ==
    constraints = <<MkRel("=", SymA, Add(SymB, SymC)), MkRel("=", SymC, Sub(SymD, SymE))>>

\* C4: for two input equalities that share exactly one variable the
\* imputations are exactly each input solved for each of its variables and
\* the derived equality solved for each of its variables; for A = B + C,
\* C = D - E these are exactly ten distinct imputations.
C4_ImputationCorrectness ==
    (pc = "done" /\ Len(constraints) = 2) =>
        /\ \A v \in Symbols :
              (/\ constraints[1] # constraints[2]
               /\ constraints[1].op = "=" /\ constraints[2].op = "="
               /\ Shared(constraints[1], constraints[2]) = {v}) =>
                  BagToSet(imputations) =
                      SolvedForEach(constraints[1]) \cup SolvedForEach(constraints[2])
                      \cup SolvedForEach(DerivedEquality(constraints[1], constraints[2], v))
        /\ IsExample =>
              /\ BagToSet(imputations) = TenImputations
              /\ Cardinality(TenImputations) = 10
              /\ BagCardinality(imputations) = 10

\* the engine finished on the example
C4_Witness ==
    /\ pc = "done"
    /\ IsExample
    /\ Imputation({"b", "d", "e"}, "a", Sub(Add(SymB, SymD), SymE)) \in BagToSet(imputations)

C8_ImputationInvariant ==
    \A imp \in BagToSet(imputations) :
        /\ imp.keys = FreeSymbolsExpr(imp.operation) \cap Symbols
        /\ imp.target_key \notin imp.keys

\* an imputation harvested from a derived relation
C8_Witness ==
    /\ pc = "done"
    /\ \E imp \in BagToSet(imputations) :
          /\ Cardinality(imp.keys) = 3
          /\ \A r \in Inputs : imp \notin SolvedForEach(r)

\* the relations held so far, given and derived
HeldRelations == UNION {symbols_to_constraints[k] : k \in DOMAIN symbols_to_constraints}

\* the solution set of r for v is a single point
SinglePoint(r, v) == v \in FreeVariables(r) /\ Solveset(r, v).kind = "FiniteSet"

\* one Imputation(free_variables(e), v, e) for each relation of rs and each of
\* its free variables v whose solution set is the single point {e}
ImputationsClaimed(rs) ==
    {[keys |-> FreeSymbolsExpr(Solveset(q[1], q[2]).start) \cap Symbols,
      target_key |-> q[2],
      operation |-> Solveset(q[1], q[2]).start] :
        q \in {t \in rs \X Symbols : SinglePoint(t[1], t[2])}}

\* C24: the Imputations are exactly one Imputation(free_variables(e), v, e)
\* for each relation, given or derived from a conjunction in Pass 2, and each
\* free variable v of it whose solution set is a single point {e}; none comes
\* from a solution set that is an interval or unsolved.  It holds after every
\* turn of the two loops, of the relations held so far.
C24_ImputationsExactly == BagToSet(imputations) = ImputationsClaimed(HeldRelations)

\* a run that ended with an imputation from a derived equality
C24_Witness ==
    /\ pc = "done"
    /\ \E imp \in BagToSet(imputations) : imp \notin ImputationsClaimed(Inputs)

\* a run that ended with a derived inequality, whose solution sets are
\* intervals, and with the imputations of the equality given only
C24_WitnessInterval ==
    /\ pc = "done"
    /\ \E r \in HeldRelations \ Inputs :
          \E v \in FreeVariables(r) : Solveset(r, v).kind = "Interval"
    /\ BagToSet(imputations) # {}
    /\ BagToSet(imputations) = ImputationsClaimed(Inputs)

\* the relations the pair q of solution sets can give, the atoms listed in
\* any order
DerivableFrom(q) ==
    UNION {AndDummyToConstraints(args) :
              args \in UNION {Orderings(DummyRelationAtoms(t[1], t[2])) :
                                 t \in {u \in q[2] \X q[2] : u[1] # u[2]}}}

\* the solution sets of the relations given, per symbol
InputSolutionSets ==
    [sym \in Symbols |->
        {Solveset(r, sym) : r \in {x \in Inputs : sym \in GetBasicSymbols(x)}}]

\* C25: deduction is one level deep.  A turn of Pass 2 never modifies the
\* per-variable solution-set map; the pairs it visits are pairs of solution
\* sets of relations given, never of a derived relation; and every relation it
\* derives comes from the pair of that turn.
C25_OneLevelDeduction ==
    [][pc = "pass2" =>
          /\ symbol_to_sets' = symbol_to_sets
          /\ \A q \in visited_pairs' : q[2] \subseteq InputSolutionSets[q[1]]
          /\ \A r \in HeldRelations' \ HeldRelations :
                \E q \in visited_pairs' \ visited_pairs : r \in DerivableFrom(q)
      ]_vars

\* a run that ended with a derived relation whose solution set for a symbol
\* was never paired with the other solution sets of that symbol
C25_Witness ==
    /\ pc = "done"
    /\ \E r \in HeldRelations \ Inputs : \E sym \in FreeVariables(r) :
          /\ Solveset(r, sym) \notin symbol_to_sets[sym]
          /\ symbol_to_sets[sym] # {}

\* ------------------------------------------------- validate_mapping alone
\* The input relations over the same symbols, by those symbols
InputGroups == {GetBasicSymbols(r) : r \in InputRelations}

\* Validations as Constraints builds them: one to MaxOperations relations, all
\* over exactly the symbols of keys
InputValidations ==
    UNION {{Validation(k, ops) :
              ops \in {o \in SUBSET {r \in InputRelations : GetBasicSymbols(r) = k} :
                         Cardinality(o) \in 1..MaxOperations}} :
           k \in InputGroups}

\* Constraints([a < b, b < c]) as validate_mapping's docstring gives it: the
\* two inputs and the derived a < c
ChainConstraints ==
    {Validation({"a", "b"}, {MkRel("<", Sym("a"), Sym("b"))}),
     Validation({"b", "c"}, {MkRel("<", Sym("b"), Sym("c"))}),
     Validation({"a", "c"}, {MkRel("<", Sym("a"), Sym("c"))})}

\* Constraints objects: two Validations over different symbols, and the chain
InputConstraints ==
    {ChainConstraints} \cup
    {{Validation(GetBasicSymbols(r1), {r1}), Validation(GetBasicSymbols(r2), {r2})} :
        r1 \in {MkRel(op, Sym("a"), x) : op \in {"=", "<"}, x \in InputForms["a"]},
        r2 \in {MkRel(op, Sym("c"), x) : op \in {"=", "<"}, x \in InputForms["c"]}}

\* first arguments that are no Validation, Imputation or Constraints, as
\* Python prints them
OtherValues == {"33", "None"}

MapArguments ==
    {[type |-> "Validation", validations |-> {v}] : v \in InputValidations}
    \cup {[type |-> "Constraints", validations |-> c] : c \in InputConstraints}
    \cup {[type |-> "Other", validations |-> {}, value |-> value] : value \in OtherValues}

MapCells == {None} \cup {{v} : v \in 0..MaxMapVal}
Mappings == UNION {[D -> MapCells] : D \in SUBSET Symbols}

MapInit ==
    /\ EngineIdle
    /\ ElimIdle
    /\ TableIdle
    /\ SymIdle
    /\ DomIdle
    /\ OrIdle
    /\ map_constraints \in MapArguments
    /\ mapping \in Mappings
    /\ map_pc = "call"
    /\ map_substituted = {}
    /\ map_result = NoError

\* isinstance(constraints, Validation): lines 93-111
ValidateMappingValidation ==
    /\ map_pc = "call"
    /\ map_constraints.type = "Validation"
    /\ \E validation \in map_constraints.validations :
          /\ map_result' = ValidateValidation(validation, mapping)
          /\ map_substituted' = Substituted(validation, mapping)
    /\ map_pc' = "done"
    /\ UNCHANGED <<map_constraints, mapping, engineVars, elimVars, tableVars, symVars, domVars, orVars>>

ConstraintsValidationError(validation_errors) ==
    [raised |-> "ConstraintsValidationError", validation_errors |-> validation_errors]

RaiseIfErrors(errors) == IF errors # {} THEN ConstraintsValidationError(errors) ELSE NoError

\* isinstance(constraints, Constraints): lines 112-121
ValidateMappingConstraints ==
    /\ map_pc = "call"
    /\ map_constraints.type = "Constraints"
    /\ map_result' = RaiseIfErrors(ValidationErrors(map_constraints.validations, mapping))
    /\ map_substituted' =
          UNION {Substituted(v, mapping) : v \in map_constraints.validations}
    /\ map_pc' = "done"
    /\ UNCHANGED <<map_constraints, mapping, engineVars, elimVars, tableVars, symVars, domVars, orVars>>

\* neither: lines 122-123
ValidateMappingOther ==
    /\ map_pc = "call"
    /\ map_constraints.type = "Other"
    /\ map_result' = InvalidConstraints(map_constraints.value)
    /\ map_pc' = "done"
    /\ UNCHANGED <<map_constraints, mapping, map_substituted, engineVars, elimVars, tableVars, symVars, domVars, orVars>>

SpecMap ==
    MapInit /\ [][ValidateMappingValidation \/ ValidateMappingConstraints \/ ValidateMappingOther]_vars

\* ------------------------------------------------ check, set_invalid_all, impute
\* The pandas functions, called with what Constraints.__init__ built from a
\* list of relations over the columns, on a table of up to MaxRows rows whose
\* cells are NaN or a number of 0..MaxCell.
TableInputs ==
    { <<>>,
      <<MkRel("=", Sym("a"), Const(1))>>,
      <<MkRel("=", Sym("a"), Scale(2, Sym("b"))), MkRel("<", Sym("a"), Const(1))>>,
      <<MkRel("<", Sym("a"), Sym("b")), MkRel("<", Sym("b"), Sym("c"))>>,
      <<MkRel("=", Sym("a"), Add(Sym("b"), Sym("c")))>>,
      <<MkRel("=", Sym("a"), Scale(2, Sym("b"))), MkRel("<", Sym("b"), Sym("c"))>>,
      <<MkRel("<=", Sym("a"), Sym("b")), MkRel("=", Sym("c"), Const(1))>>,
      <<MkRel("<=", Sym("a"), Sym("b")), MkRel("<", Sym("a"), Sym("b"))>> }

Tables ==
    UNION {[1..n -> [TableColumns -> {NaN} \cup {Num(k) : k \in 0..MaxCell}]] : n \in 0..MaxRows}

\* the reference of the table the caller holds
df == 1

TableInit ==
    /\ EngineStart(TableInputs)
    /\ ElimIdle
    /\ MapIdle
    /\ frames \in {<<t>> : t \in Tables}
    /\ tbl_pc = "start"
    /\ tbl_constraints = [type |-> "None"]
    /\ check_result = EmptyCheckResult
    /\ fill = NaN
    /\ set_invalid_result = NoResult
    /\ impute_source = 0
    /\ impute_order = <<>>
    /\ impute_result = NoResult
    /\ imputed_mapping = <<>>
    /\ SymIdle
    /\ DomIdle
    /\ OrIdle

\* the objects a caller can pass as first argument
ConstraintsArgument ==
    [type |-> "Constraints", validations |-> validations, imputations |-> BagToSet(imputations)]
ValidationArguments == {[type |-> "Validation", validation |-> v] : v \in validations}
ImputationArguments ==
    {[type |-> "Imputation", imputation |-> i] : i \in BagToSet(imputations)}
OtherArguments == {[type |-> "Other", value |-> value] : value \in OtherValues}

\* check(constraints, df), lines 155-211
CheckOutcome(argument, table) ==
    IF argument.type = "Validation" THEN CheckValidation(argument.validation, table)
    ELSE IF argument.type = "Constraints" THEN CheckConstraints(argument.validations, table)
    ELSE InvalidConstraints(argument.value)

Check ==
    /\ pc = "done"
    /\ tbl_pc = "start"
    /\ \E argument \in {ConstraintsArgument} \cup ValidationArguments \cup OtherArguments :
          /\ tbl_constraints' = argument
          /\ check_result' = CheckOutcome(argument, frames[df])
          /\ tbl_pc' = IF CheckOutcome(argument, frames[df]).raised = "none" THEN "checked" ELSE "raised"
    /\ UNCHANGED <<frames, fill, set_invalid_result, impute_source, impute_order,
                   impute_result, imputed_mapping, engineVars, elimVars, mapVars, symVars, domVars, orVars>>

\* the reference "result = df.copy()" binds: a new object
DfCopyShared(objects, ref) == ref
DfCopy(objects, ref) == Len(objects) + 1

\* the objects after result = df.copy() and the assignments to result
WithCopy(objects, ref, outcome) ==
    IF outcome.raised = "none"
    THEN [Append(objects, objects[ref]) EXCEPT ![DfCopy(objects, ref)] = outcome.table]
    ELSE Append(objects, objects[ref])

\* what the call returns: the reference of result, or what it raised
Returned(objects, ref, outcome) ==
    IF outcome.raised = "none" THEN [raised |-> "none", ref |-> DfCopy(objects, ref)]
    ELSE outcome

\* set_invalid_all(check_result, df, fill), lines 262-290
SetInvalidAllCall(given, f) ==
    /\ check_result' = given
    /\ fill' = f
    /\ frames' = WithCopy(frames, df, SetInvalidAllTable(given, frames[df], f))
    /\ set_invalid_result' = Returned(frames, df, SetInvalidAllTable(given, frames[df], f))
    /\ tbl_pc' = IF SetInvalidAllTable(given, frames[df], f).raised = "none" THEN "blanked" ELSE "raised"

SetInvalidAll ==
    /\ pc = "done"
    /\ \/ tbl_pc = "checked" /\ \E f \in {NaN, Num(-1)} : SetInvalidAllCall(check_result, f)
       \/ tbl_pc = "start" /\ \E f \in {NaN, Num(-1)} : SetInvalidAllCall(EmptyCheckResult, f)
    /\ UNCHANGED <<tbl_constraints, impute_source, impute_order, impute_result,
                   imputed_mapping, engineVars, elimVars, mapVars, symVars, domVars, orVars>>

\* impute(constraints, df), lines 349-382
ImputeOutcome(argument, order, table) ==
    IF argument.type = "Imputation"
    THEN [raised |-> "none", table |-> ImputeImputation(argument.imputation, table)]
    ELSE IF argument.type = "Constraints"
    THEN [raised |-> "none", table |-> ImputeAll(order, table)]
    ELSE InvalidConstraints(argument.value)

\* the orders constraints.imputations can list the imputations in
ImputationOrders(argument) ==
    IF argument.type = "Constraints" THEN Orderings(argument.imputations) ELSE {<<>>}

ImputeCall(argument, order, source) ==
    /\ tbl_constraints' = argument
    /\ impute_source' = source
    /\ impute_order' = order
    /\ frames' = IF argument.type = "Other" THEN frames
                 ELSE WithCopy(frames, source, ImputeOutcome(argument, order, frames[source]))
    /\ impute_result' = Returned(frames, source, ImputeOutcome(argument, order, frames[source]))
    /\ tbl_pc' = IF ImputeOutcome(argument, order, frames[source]).raised = "none" THEN "done" ELSE "raised"

\* impute on the caller's table, or on the table set_invalid_all returned for
\* the check result of the same Constraints
Impute ==
    /\ pc = "done"
    /\ \/ /\ tbl_pc = "start"
          /\ \E argument \in {ConstraintsArgument} \cup ImputationArguments \cup OtherArguments :
             \E order \in ImputationOrders(argument) : ImputeCall(argument, order, df)
       \/ /\ tbl_pc = "blanked"
          /\ tbl_constraints.type = "Constraints"
          /\ \E order \in ImputationOrders(tbl_constraints) :
                ImputeCall(tbl_constraints, order, set_invalid_result.ref)
    /\ UNCHANGED <<check_result, fill, set_invalid_result, imputed_mapping,
                   engineVars, elimVars, mapVars, symVars, domVars, orVars>>

\* the records a caller gives impute_mapping: the row of a one-row table
\* with some of the columns as keys, a value or None for each
RecordMappings(table) ==
    IF Len(table) = 1 THEN {[col \in D |-> table[1][col]] : D \in SUBSET TableColumns}
    ELSE {}

\* the record with the keys it lacks read as None
AsRow(m) == [col \in TableColumns |-> MappingGet(m, col)]

\* impute_mapping(imputation, mapping): the record with the target computed
\* by substitution when it can be, the record itself otherwise
ImputeMapping(imputation, m) ==
    IF /\ \A k \in imputation.keys : MappingGet(m, k) # None
       /\ MappingGet(m, imputation.target_key) = None
    THEN (imputation.target_key :> {EvalExprRow(imputation.operation, AsRow(m))}) @@ m
    ELSE m

ImputeMappingCall ==
    /\ pc = "done"
    /\ tbl_pc = "start"
    /\ \E argument \in ImputationArguments : \E m \in RecordMappings(frames[df]) :
          /\ tbl_constraints' = argument
          /\ mapping' = m
          /\ imputed_mapping' = ImputeMapping(argument.imputation, m)
    /\ tbl_pc' = "done"
    /\ UNCHANGED <<frames, check_result, fill, set_invalid_result, impute_source, impute_order,
                   impute_result, map_constraints, map_pc, map_substituted, map_result,
                   engineVars, elimVars, symVars, domVars, orVars>>

SpecTable ==
    TableInit /\ [][\/ Pass1 \/ Pass1Done \/ Pass2 \/ BuildValidations
                    \/ Check \/ SetInvalidAll \/ Impute \/ ImputeMappingCall]_vars

\* ------------------------------- Constraints.__init__ in list order, impute
\* Constraints.__init__ with self._imputations kept as the list it is, on
\* chains of equalities over four columns, then impute(constraints, df) on a
\* table of at most one row whose cells are NaN or 1: its loop walks the list
\* as __init__ built it.
ListedColumns == {"a", "b", "c", "d"}

ListedInputs ==
    { <<MkRel("=", Sym("a"), Sym("b")), MkRel("=", Sym("b"), Sym("c")),
        MkRel("=", Sym("c"), Sym("d")), MkRel("=", Sym("d"), Const(1))>>,
      <<MkRel("=", Sym("d"), Const(1)), MkRel("=", Sym("c"), Sym("d")),
        MkRel("=", Sym("b"), Sym("c")), MkRel("=", Sym("a"), Sym("b"))>>,
      <<MkRel("=", Sym("a"), Sym("b")), MkRel("=", Sym("b"), Const(1))>> }

ListedTables ==
    UNION {[1..n -> [ListedColumns -> {NaN, Num(1)}]] : n \in 0..1}

ListedInit ==
    /\ EngineStart(ListedInputs)
    /\ ElimIdle
    /\ MapIdle
    /\ frames \in {<<t>> : t \in ListedTables}
    /\ tbl_pc = "start"
    /\ tbl_constraints = [type |-> "None"]
    /\ check_result = EmptyCheckResult
    /\ fill = NaN
    /\ set_invalid_result = NoResult
    /\ impute_source = 0
    /\ impute_order = <<>>
    /\ impute_result = NoResult
    /\ imputed_mapping = <<>>
    /\ SymIdle
    /\ DomIdle
    /\ OrIdle

\* the orders in which the appends of one harvest can come: the symbols of a
\* relation and the relations of a set are iterated in no fixed order
HarvestOrders(harvest) ==
    {order \in [1..BagCardinality(harvest) -> BagToSet(harvest)] :
        \A imputation \in BagToSet(harvest) :
            Cardinality({i \in DOMAIN order : order[i] = imputation}) = CopiesIn(imputation, harvest)}

\* one turn of the first loop, the appends of lines 197-199 in their order
Pass1Listed ==
    /\ pc = "pass1"
    /\ next_constraint <= Len(constraints)
    /\ Pass1Turn(constraints[next_constraint], GetBasicSymbols(constraints[next_constraint]))
    /\ next_constraint' = next_constraint + 1
    /\ \E order \in HarvestOrders(HarvestImputations({constraints[next_constraint]})) :
          impute_order' = impute_order \o order
    /\ UNCHANGED <<constraints, pc, visited_pairs, validations, frames, tbl_pc, tbl_constraints,
                   check_result, fill, set_invalid_result, impute_source, impute_result,
                   imputed_mapping, elimVars, mapVars, symVars, domVars, orVars>>

\* one turn of the second loop, the appends of lines 232-234 in their order
Pass2Listed ==
    /\ pc = "pass2"
    /\ \E q \in AllPairs(symbol_to_sets) \ visited_pairs :
        \E set1 \in q[2] : \E set2 \in q[2] \ {set1} :
        \E args \in Orderings(DummyRelationAtoms(set1, set2)) :
            /\ Pass2Add(AndDummyToConstraints(args))
            /\ visited_pairs' = visited_pairs \cup {q}
            /\ \E order \in HarvestOrders(HarvestImputations(AndDummyToConstraints(args))) :
                  impute_order' = impute_order \o order
    /\ UNCHANGED <<constraints, pc, next_constraint, symbol_to_sets, validations, frames, tbl_pc,
                   tbl_constraints, check_result, fill, set_invalid_result, impute_source,
                   impute_result, imputed_mapping, elimVars, mapVars, symVars, domVars, orVars>>

\* impute(constraints, df), lines 365-380, the loop over the list as built
ImputeListed ==
    /\ pc = "done"
    /\ tbl_pc = "start"
    /\ ImputeCall(ConstraintsArgument, impute_order, df)
    /\ UNCHANGED <<check_result, fill, set_invalid_result, imputed_mapping,
                   engineVars, elimVars, mapVars, symVars, domVars, orVars>>

SpecListed ==
    ListedInit /\ [][Pass1Listed \/ Pass1Done \/ Pass2Listed \/ BuildValidations \/ ImputeListed]_vars

\* ----------------------------------------------- calls with another object
\* A caller that built Constraints([]) and holds a table of at most one row
\* and a mapping calls
\* validate_mapping, check and impute; the first argument of validate_mapping
\* is an object of another type, that of check and impute can be one.
EngineDone(inputs) ==
    /\ constraints \in inputs
    /\ pc = "done"
    /\ next_constraint = Len(constraints) + 1
    /\ symbol_to_sets = [sym \in Symbols |-> {}]
    /\ symbols_to_constraints = <<>>
    /\ imputations = EmptyBag
    /\ visited_pairs = {}
    /\ validations = {}

InvalidInit ==
    /\ EngineDone({<<>>})
    /\ ElimIdle
    /\ map_constraints \in {m \in MapArguments : m.type = "Other"}
    /\ mapping \in [{"a", "b"} -> MapCells]
    /\ map_pc = "call"
    /\ map_substituted = {}
    /\ map_result = NoError
    /\ frames \in {<<t>> : t \in {u \in Tables : Len(u) <= 1}}
    /\ tbl_pc = "start"
    /\ tbl_constraints = [type |-> "None"]
    /\ check_result = EmptyCheckResult
    /\ fill = NaN
    /\ set_invalid_result = NoResult
    /\ impute_source = 0
    /\ impute_order = <<>>
    /\ impute_result = NoResult
    /\ imputed_mapping = <<>>
    /\ SymIdle
    /\ DomIdle
    /\ OrIdle

SpecInvalid == InvalidInit /\ [][ValidateMappingOther \/ Check \/ Impute]_vars

\* ------------------------------------------------------- claims, SpecElim
UsefulPairs == Combinations2(Len(useful_relations))

BothEqual(q) ==
    useful_relations[q[1]].rel = "=" /\ useful_relations[q[2]].rel = "="
\* op1 is '>' or '=' and op2 is '<' or '=', not both '='
LowerThenUpper(q) ==
    /\ ~BothEqual(q)
    /\ useful_relations[q[1]].rel \in {">", "="}
    /\ useful_relations[q[2]].rel \in {"<", "="}
\* op1 is '<' or '=' and op2 is '>' or '=', not both '='
UpperThenLower(q) ==
    /\ ~BothEqual(q)
    /\ useful_relations[q[1]].rel \in {"<", "="}
    /\ useful_relations[q[2]].rel \in {">", "="}
PairRel(op, q) == MkRel(op, useful_relations[q[1]].expr, useful_relations[q[2]].expr)

\* what the elimination table of the specification allows for the pair q
TableAllows(q) ==
    IF BothEqual(q) THEN {PairRel("=", q)}
    ELSE IF LowerThenUpper(q) THEN {PairRel("<", q), PairRel("<=", q)}
    ELSE IF UpperThenLower(q) THEN {PairRel(">", q), PairRel(">=", q)}
    ELSE {}

\* C5: for every pair of classified atoms the call emits expr1 = expr2 for
\* ('=', '='), expr1 < or <= expr2 for ('>' or '=', '<' or '='), expr1 > or >=
\* expr2 for ('<' or '=', '>' or '='), and nothing for ('>', '>') and
\* ('<', '<'): every pair with a table entry has one of its relations in the
\* result, and every relation of the result is the table entry of some pair.
C5_EliminationTable ==
    elim_pc = "done" =>
        /\ \A q \in UsefulPairs :
              TableAllows(q) # {} => TableAllows(q) \cap elim_constraints # {}
        /\ \A r \in elim_constraints : \E q \in UsefulPairs : r \in TableAllows(q)

\* a lower bound followed by an upper bound gave one symbolic relation "<"
C5_Witness ==
    /\ elim_pc = "done"
    /\ Len(useful_relations) = 2
    /\ useful_relations[1].rel = ">"
    /\ useful_relations[2].rel = "<"
    /\ \E r \in elim_constraints : r.op = "<"
    /\ Cardinality(elim_constraints) = 1

AnyStrict(q) == useful_relations[q[1]].strict \/ useful_relations[q[2]].strict

\* C6: a derived inequality is strict exactly when one of the two combined
\* atoms is strict; an equality is never a strict atom, so an equality with a
\* non-strict bound gives <= or >= and with a strict bound < or >.
C6_StrictnessPropagation ==
    elim_pc = "done" =>
        /\ \A i \in 1..Len(useful_relations) :
              useful_relations[i].rel = "=" => ~useful_relations[i].strict
        /\ \A q \in UsefulPairs :
              /\ LowerThenUpper(q) =>
                    PairRel(IF AnyStrict(q) THEN "<" ELSE "<=", q) \in elim_constraints
              /\ UpperThenLower(q) =>
                    PairRel(IF AnyStrict(q) THEN ">" ELSE ">=", q) \in elim_constraints
        /\ Len(useful_relations) = 2 =>
              \A r \in elim_constraints :
                  /\ r.op \in {"<", ">"} => AnyStrict(<<1, 2>>)
                  /\ r.op \in {"<=", ">="} => ~AnyStrict(<<1, 2>>)

\* an equality combined with a strict upper bound gave a strict relation
C6_Witness ==
    /\ elim_pc = "done"
    /\ Len(useful_relations) = 2
    /\ useful_relations[1].rel = "="
    /\ useful_relations[2].rel = "<"
    /\ useful_relations[2].strict
    /\ \E r \in elim_constraints : r.op = "<"

\* the side of a comparison atom that is not the placeholder
OtherSide(atom) == IF atom.lhs = Sym(Dummy) THEN atom.rhs ELSE atom.lhs

\* whether the atom puts the placeholder on the greater side
PlaceholderGreater(atom) ==
    \/ atom.lhs = Sym(Dummy) /\ atom.op \in {">", ">="}
    \/ atom.rhs = Sym(Dummy) /\ atom.op \in {"<", "<="}

\* the triple the specification gives for a comparison atom between the
\* placeholder and an expression
ClaimedTriple(atom) ==
    [rel |-> IF atom.op = "=" THEN "=" ELSE IF PlaceholderGreater(atom) THEN ">" ELSE "<",
     expr |-> OtherSide(atom),
     strict |-> atom.op \in {"<", ">"}]

\* the placeholder values of -MaxVal..MaxVal that satisfy the atom, the symbols
\* valued by m
AtomValues(atom, m) ==
    {v \in -MaxVal..MaxVal :
        HoldsFor(atom.op,
                 CompareInts((ValueNum(atom.lhs, m) + atom.lhs.num[Dummy] * v) * atom.rhs.den,
                             (ValueNum(atom.rhs, m) + atom.rhs.num[Dummy] * v) * atom.lhs.den))}

\* how the number v compares with the expression x valued by m, x -oo or oo
\* included
CompareWithValue(v, x, m) ==
    IF IsInf(x) THEN FlipSign(SignOfConstant(x))
    ELSE CompareInts(v * x.den, ValueNum(x, m))

\* the placeholder values of -MaxVal..MaxVal a classified triple denotes
TripleValues(triple, m) ==
    {v \in -MaxVal..MaxVal :
        HoldsFor(IF triple.rel = "=" THEN "="
                 ELSE IF triple.strict THEN triple.rel
                 ELSE IF triple.rel = "<" THEN "<=" ELSE ">=",
                 CompareWithValue(v, triple.expr, m))}

FaithfulAt(i) ==
    /\ useful_relations[i] = ClaimedTriple(and_args[i])
    /\ \A m \in {[s \in Symbols |-> 0], [s \in Symbols |-> 1], [s \in Symbols |-> IF s = "d" THEN 2 ELSE -1]} :
          TripleValues(useful_relations[i], m) = AtomValues(and_args[i], m)

\* C22: for every comparison atom between the placeholder p and an expression
\* e, symbolic or a constant, _DummyRelation yields expr = e, op '=' for p = e,
\* '>' when p is on the greater side, '<' when p is on the lesser side, strict
\* exactly for < and >, and the triple denotes the same placeholder values as
\* the atom.
C22_ClassificationFaithful ==
    elim_pc = "done" =>
        /\ Len(useful_relations) = Len(and_args)
        /\ \A i \in 1..Len(and_args) : FaithfulAt(i)

\* The classification is as claimed for every atom whose expression is
\* symbolic and for every equality; an upper bound by a number (p < 3, p <= 3)
\* is classified '>' with expr = -oo, the interval's other end.
ClassificationOfSymbolic ==
    elim_pc = "done" =>
        \A i \in 1..Len(and_args) :
            IF IsConstant(OtherSide(and_args[i])) /\ and_args[i].op # "=" /\ ~PlaceholderGreater(and_args[i])
            THEN useful_relations[i] = [rel |-> ">", expr |-> NegInf, strict |-> TRUE]
            ELSE FaithfulAt(i)

\* the values of b, d and e the soundness of a step is read on (the
\* expressions of the atoms mention no other symbol), and the placeholder
\* values, twice each so that the halves between two integers are among them
StepAssignments ==
    {[s \in Symbols |-> IF s = "b" THEN t[1] ELSE IF s = "d" THEN t[2] ELSE IF s = "e" THEN t[3] ELSE 0] :
        t \in {-1, 0, 1} \X {-1, 0, 1} \X {-1, 0, 1}}
PlaceholderHalves == (-2 * MaxVal)..(2 * MaxVal + 4)

\* whether p = v2 / 2 satisfies the classified atom "p rel expr", strict or not
TripleHolds(triple, v2, m) ==
    HoldsFor(IF triple.rel = "=" THEN "="
             ELSE IF triple.strict THEN triple.rel
             ELSE IF triple.rel = "<" THEN "<=" ELSE ">=",
             IF IsInf(triple.expr) THEN FlipSign(SignOfConstant(triple.expr))
             ELSE CompareInts(v2 * triple.expr.den, 2 * ValueNum(triple.expr, m)))

BothHold(q, v2, m) ==
    TripleHolds(useful_relations[q[1]], v2, m) /\ TripleHolds(useful_relations[q[2]], v2, m)

\* C27: each elimination step is sound.  For all values of expr1, expr2 and of
\* the placeholder p, if p satisfies both classified atoms, then the relation
\* emitted for that pair holds: an emitted relation is never stronger than what
\* the two atoms imply.
C27_EliminationSoundness ==
    elim_pc = "done" =>
        \A q \in UsefulPairs : \A m \in StepAssignments :
            (\E v2 \in PlaceholderHalves : BothHold(q, v2, m))
                => \A r \in MatchPair(useful_relations[q[1]], useful_relations[q[2]]) : EvalRel(r, m)

\* a pair of a strict lower bound and an upper bound gave a symbolic relation
\* that some values of the placeholder between the bounds make necessary and
\* that other values of the expressions falsify
C27_Witness ==
    /\ elim_pc = "done"
    /\ \E q \in UsefulPairs :
          /\ useful_relations[q[1]].rel = ">" /\ useful_relations[q[1]].strict
          /\ useful_relations[q[2]].rel = "<"
          /\ \E r \in MatchPair(useful_relations[q[1]], useful_relations[q[2]]) :
                /\ ~IsBoolRel(r)
                /\ r \in elim_constraints
                /\ \E m \in StepAssignments : ~EvalRel(r, m)
          /\ \E m \in StepAssignments : \E v2 \in PlaceholderHalves : BothHold(q, v2, m)

\* -------------------------------------------------------- claims, SpecMap
TheValidation == CHOOSE v \in map_constraints.validations : TRUE
ValidationCall == map_pc = "done" /\ map_constraints.type = "Validation"

\* a member variable of the Validation has no value in the mapping
SomeValueAbsent ==
    \E k \in TheValidation.keys : k \notin DOMAIN mapping \/ mapping[k] = None

\* the operations of the Validation that do not hold under the mapping's values
NotHolding ==
    {r \in TheValidation.operations :
        ~EvalRel(r, [s \in Symbols |->
                        IF s \in TheValidation.keys THEN ValueOf(mapping[s]) ELSE 0])}

\* C9: when the value of at least one member variable of the Validation is
\* absent from the mapping or None, validate_mapping returns normally and
\* has substituted values in no relation, whatever the other values are.
C9_MissingDataSemantics ==
    (ValidationCall /\ SomeValueAbsent) =>
        /\ map_result = NoError
        /\ map_substituted = {}

\* one member absent, another with a value under which, the absent one read
\* as 0, a relation of the Validation would not hold
C9_Witness ==
    /\ ValidationCall
    /\ \E k \in TheValidation.keys : k \notin DOMAIN mapping
    /\ \E k \in TheValidation.keys : MappingGet(mapping, k) = {1}
    /\ ValidateValidationNoSkip(TheValidation, mapping) # NoError
    /\ map_result = NoError

\* C10: when every member variable has a value, validate_mapping returns
\* normally if and only if every relation holds under the values; otherwise
\* it raises a ValidationError whose unsatisfied_booleans are exactly the
\* relations that do not hold and whose values are the mapping restricted to
\* the member variables.
C10_ValidationOutcome ==
    (ValidationCall /\ ~SomeValueAbsent) =>
        /\ map_result = NoError <=> NotHolding = {}
        /\ NotHolding # {} =>
              /\ map_result.raised = "ValidationError"
              /\ map_result.unsatisfied_booleans = NotHolding
              /\ map_result.values = [k \in TheValidation.keys |-> mapping[k]]

\* a ValidationError naming one of two relations, a value 0 among the values
\* and a key of the mapping that is no member variable
C10_Witness ==
    /\ ValidationCall
    /\ ~SomeValueAbsent
    /\ map_result.raised = "ValidationError"
    /\ Cardinality(TheValidation.operations) = 2
    /\ Cardinality(map_result.unsatisfied_booleans) = 1
    /\ \E k \in TheValidation.keys : mapping[k] = {0}
    /\ DOMAIN mapping # TheValidation.keys

ConstraintsCall == map_pc = "done" /\ map_constraints.type = "Constraints"

\* every member variable of the Validation v has a value in the mapping
AllPresent(v) == \A k \in v.keys : k \in DOMAIN mapping /\ mapping[k] # None

\* the operations of v that do not hold under the mapping's values
NotHoldingIn(v) ==
    {r \in v.operations :
        ~EvalRel(r, [s \in Symbols |-> IF s \in v.keys THEN ValueOf(mapping[s]) ELSE 0])}

\* the Validations of the Constraints that fail on the mapping
FailingValidations ==
    {v \in map_constraints.validations : AllPresent(v) /\ NotHoldingIn(v) # {}}

\* C11: validate_mapping(Constraints, mapping) raises ConstraintsValidationError
\* if and only if at least one Validation fails, and its validation_errors
\* are exactly one ValidationError for each failing Validation, none for a
\* Validation that passes or has a member variable without a value.
C11_ConstraintsAggregation ==
    ConstraintsCall =>
        /\ map_result.raised = "ConstraintsValidationError" <=> FailingValidations # {}
        /\ FailingValidations = {} => map_result = NoError
        /\ FailingValidations # {} =>
              /\ map_result.validation_errors =
                    {ValidationError([k \in v.keys |-> mapping[k]], NotHoldingIn(v)) :
                        v \in FailingValidations}
              /\ Cardinality(map_result.validation_errors) = Cardinality(FailingValidations)

\* a < b, b < c with {a: 1, c: 0}: exactly the derived a < c is reported
C11_Witness ==
    /\ ConstraintsCall
    /\ map_constraints.validations = ChainConstraints
    /\ DOMAIN mapping = {"a", "c"}
    /\ mapping["a"] = {1} /\ mapping["c"] = {0}
    /\ map_result.raised = "ConstraintsValidationError"
    /\ map_result.validation_errors =
          {ValidationError([k \in {"a", "c"} |-> mapping[k]],
                           {MkRel("<", Sym("a"), Sym("c"))})}

\* ------------------------------------------------------ claims, SpecInvalid
\* what the three functions are to raise for the object value
ValueErrorFor(value) ==
    [raised |-> "ValueError", message |-> <<"Invalid constraints given: ", value>>]

ValidateMappingReturns == map_pc = "call" /\ map_pc' = "done"
CheckReturns == tbl_pc = "start" /\ tbl_pc' # "start" /\ check_result' # check_result
ImputeReturns == tbl_pc = "start" /\ tbl_pc' # "start" /\ impute_result' # impute_result

\* C12: validate_mapping, check and impute called with a first argument of
\* none of the accepted types raise ValueError with the message
\* "Invalid constraints given: <value>" naming the object received, and do
\* nothing else: no value is substituted, no table is made or changed.
C12_InvalidConstraints ==
    [][ /\ (ValidateMappingReturns /\ map_constraints.type = "Other") =>
              /\ map_result' = ValueErrorFor(map_constraints.value)
              /\ map_substituted' = map_substituted
              /\ mapping' = mapping
              /\ UNCHANGED tableVars
        /\ (CheckReturns /\ tbl_constraints'.type = "Other") =>
              /\ check_result' = ValueErrorFor(tbl_constraints'.value)
              /\ tbl_pc' = "raised"
              /\ frames' = frames
              /\ UNCHANGED <<set_invalid_result, impute_result, mapVars>>
        /\ (ImputeReturns /\ tbl_constraints'.type = "Other") =>
              /\ impute_result' = ValueErrorFor(tbl_constraints'.value)
              /\ tbl_pc' = "raised"
              /\ frames' = frames
              /\ UNCHANGED <<check_result, set_invalid_result, mapVars>>
      ]_vars

C12_Witness ==
    /\ map_pc = "done"
    /\ map_constraints.value = "33"
    /\ map_result = ValueErrorFor("33")
    /\ tbl_pc = "raised"
    /\ tbl_constraints = [type |-> "Other", value |-> "33"]
    /\ impute_result = ValueErrorFor("33")
    /\ Len(frames[df]) = 1

\* -------------------------------------------------------- claims, SpecTable
\* check has been called with a Validation or a Constraints and nothing since
CheckCalled ==
    /\ tbl_constraints.type \in {"Validation", "Constraints"}
    /\ set_invalid_result = NoResult
    /\ impute_result = NoResult
    /\ tbl_pc \in {"checked", "raised"}

\* the Validations of the first argument of check
CheckedValidations ==
    IF tbl_constraints.type = "Validation" THEN {tbl_constraints.validation}
    ELSE tbl_constraints.validations

\* the labels the columns of the result are to have
ExpectedColumns ==
    IF tbl_constraints.type = "Validation" THEN tbl_constraints.validation.operations
    ELSE UNION {{<<v.keys, r>> : r \in v.operations} : v \in CheckedValidations}

ColumnOf(v, r) == IF tbl_constraints.type = "Validation" THEN r ELSE <<v.keys, r>>

\* the value of column s in a row, 0 for a column the row does not hold
RowAssignment(row) ==
    [s \in Symbols |-> IF s \in TableColumns /\ row[s] # NaN THEN ValueOf(row[s]).n ELSE 0]

\* 1, 0 or NaN as the claim words it
TernaryCell(v, r, row) ==
    IF \E k \in v.keys : row[k] = NaN THEN NaN
    ELSE IF EvalRel(r, RowAssignment(row)) THEN Num(1) ELSE Num(0)

CheckCellsAsClaimed ==
    /\ check_result.raised = "none"
    /\ check_result.columns = ExpectedColumns
    /\ \A v \in CheckedValidations : \A r \in v.operations :
          /\ DOMAIN check_result.cells[ColumnOf(v, r)] = (DOMAIN frames[df])
          /\ \A i \in (DOMAIN frames[df]) :
                check_result.cells[ColumnOf(v, r)][i] = TernaryCell(v, r, frames[df][i])

\* C13: check(Validation, table) returns one column per relation and one row
\* per input row, the cell 1 when all member columns are present and the
\* relation holds, 0 when all are present and it does not hold, NaN when a
\* member column is missing in the row; for a Constraints the result has this
\* block of columns for every Validation, keyed by the Validation's keys.
C13_CheckResult == CheckCalled => CheckCellsAsClaimed

\* the same for the calls in which every relation checked has a free symbol
\* and there is at least one Validation: the only calls that return
AllSymbolic ==
    /\ CheckedValidations # {}
    /\ \A v \in CheckedValidations : \A r \in v.operations : GetBasicSymbols(r) # {}

CheckResultOfSymbolic == (CheckCalled /\ AllSymbolic) => CheckCellsAsClaimed
CheckRaisesOtherwise == (CheckCalled /\ ~AllSymbolic) => check_result.raised # "none"

\* set_invalid_all has returned a table
SetInvalidAllReturned == set_invalid_result.raised = "none" /\ set_invalid_result.ref # 0
InvalidAllTable == frames[set_invalid_result.ref]

\* the Validation variable sets K of the check result given, each with its
\* columns: the keys of a Constraints result, the keys of the Validation for
\* the result of a Validation
GivenBlocks ==
    IF check_result.columns = {} THEN {}
    ELSE IF check_result.nlevels = 1
    THEN {<<tbl_constraints.validation.keys, check_result.columns>>}
    ELSE {<<v.keys, {<<v.keys, r>> : r \in v.operations}>> : v \in tbl_constraints.validations}

SomeUnsatisfied(blk, i) == \E q \in blk[2] : check_result.cells[q][i] = Num(0)
Implicated(i, col) == \E blk \in GivenBlocks : col \in blk[1] /\ SomeUnsatisfied(blk, i)

\* C14: in the table set_invalid_all(check_result, table, fill) returns, every
\* column of K in a row is fill when a relation of K is unsatisfied (0) in the
\* row, and every other cell keeps the value of the table: NaN and satisfied
\* results blank nothing, and an empty check result gives the table back
\* unchanged.
C14_SetInvalidAllFrame ==
    SetInvalidAllReturned =>
        /\ Len(InvalidAllTable) = Len(frames[df])
        /\ \A i \in (DOMAIN frames[df]) : \A col \in TableColumns :
              InvalidAllTable[i][col] =
                 IF Implicated(i, col) THEN fill ELSE frames[df][i][col]
        /\ check_result.columns = {} => InvalidAllTable = frames[df]

\* a Constraints result in which a row has an unsatisfied K, blanked with -1,
\* and a present cell outside every failing K kept; another row has a NaN
\* result and is kept
C14_Witness ==
    /\ SetInvalidAllReturned
    /\ tbl_pc = "blanked"
    /\ check_result.nlevels = 2
    /\ fill = Num(-1)
    /\ \E i \in (DOMAIN frames[df]) : \E col, other \in TableColumns :
          /\ Implicated(i, col) /\ InvalidAllTable[i][col] = fill /\ frames[df][i][col] # fill
          /\ ~Implicated(i, other) /\ frames[df][i][other] # NaN
          /\ InvalidAllTable[i][other] = frames[df][i][other]
    /\ \E j \in (DOMAIN frames[df]) :
          /\ \E q \in check_result.columns : check_result.cells[q][j] = NaN
          /\ InvalidAllTable[j] = frames[df][j]

\* impute(Imputation, table) has returned; impute_mapping has returned
ImputationApplied == tbl_constraints.type = "Imputation" /\ impute_result.raised = "none"
                        /\ impute_result.ref # 0
MappingImputed == tbl_constraints.type = "Imputation" /\ tbl_pc = "done" /\ impute_result = NoResult
TheImputation == tbl_constraints.imputation
ImputedTable == frames[impute_result.ref]

SourcesPresent(row) == \A k \in TheImputation.keys : row[k] # NaN
TargetAbsent(row) == row[TheImputation.target_key] = NaN

\* the row or record as the claim wants it after the Imputation
ExpectedRow(row) ==
    IF SourcesPresent(row) /\ TargetAbsent(row)
    THEN [col \in DOMAIN row |->
             IF col = TheImputation.target_key
             THEN {EvalExprRow(TheImputation.operation, row)} ELSE row[col]]
    ELSE row

\* C15: one Imputation applied to a record or to a table row sets the target
\* to the value of the expression under the source values when every source
\* has a value and the target is absent, and returns the record or row
\* unchanged in every other case; a present target is never overwritten and
\* no cell other than the target changes.
C15_ImputationApplication ==
    /\ ImputationApplied =>
          /\ Len(ImputedTable) = Len(frames[impute_source])
          /\ \A i \in (DOMAIN frames[impute_source]) :
                ImputedTable[i] = ExpectedRow(frames[impute_source][i])
    /\ MappingImputed =>
          /\ \A col \in TableColumns :
                MappingGet(imputed_mapping, col) = ExpectedRow(AsRow(mapping))[col]
          /\ ~(SourcesPresent(AsRow(mapping)) /\ TargetAbsent(AsRow(mapping)))
                => imputed_mapping = mapping

\* a table with a row that is imputed, a row whose target is present and
\* differs from the expression's value, and the same for a record
C15_Witness ==
    /\ ImputationApplied
    /\ TheImputation.keys # {}
    /\ \E i, j \in (DOMAIN frames[impute_source]) :
          /\ TargetAbsent(frames[impute_source][i]) /\ SourcesPresent(frames[impute_source][i])
          /\ ImputedTable[i] # frames[impute_source][i]
          /\ SourcesPresent(frames[impute_source][j]) /\ ~TargetAbsent(frames[impute_source][j])
          /\ frames[impute_source][j][TheImputation.target_key]
                # {EvalExprRow(TheImputation.operation, frames[impute_source][j])}

\* a record whose target is computed from its sources
C15_WitnessRecord ==
    /\ MappingImputed
    /\ TheImputation.keys # {}
    /\ imputed_mapping # mapping

\* impute(C, set_invalid_all(check(C, df), df)) has returned, the fill NaN
RoundTripDone ==
    /\ tbl_pc = "done"
    /\ tbl_constraints.type = "Constraints"
    /\ SetInvalidAllReturned
    /\ impute_source = set_invalid_result.ref
    /\ impute_result.raised = "none"
    /\ fill = NaN

\* the cells set_invalid_all blanked: they held a value and hold none after
BlankedCells ==
    {<<i, col>> \in (DOMAIN frames[df]) \X TableColumns :
        frames[df][i][col] # NaN /\ InvalidAllTable[i][col] = NaN}

\* C16: in impute(C, set_invalid_all(check(C, df), df)) with NaN as fill,
\* every cell that set_invalid_all blanked is still missing after impute.
C16_RepairRoundTrip ==
    RoundTripDone => \A q \in BlankedCells : ImputedTable[q[1]][q[2]] = NaN

\* the same for those Constraints of TableInputs none of whose Imputations
\* has a number as expression: among these inputs every refilled cell is
\* refilled by an Imputation without source
NoConstantImputation == \A i \in tbl_constraints.imputations : i.keys # {}
RoundTripWithoutConstants ==
    (RoundTripDone /\ NoConstantImputation) =>
        \A q \in BlankedCells : ImputedTable[q[1]][q[2]] = NaN

\* every table that exists keeps its values in the step
TablesKept == \A r \in DOMAIN frames : r \in DOMAIN frames' /\ frames'[r] = frames[r]

\* the table a call returns in the step is an object that did not exist
ReturnsNewTable(before, after) ==
    (after # before /\ after.raised = "none") => after.ref \notin DOMAIN frames

\* C17: check, set_invalid_all and impute never modify the table passed to
\* them: after each call it holds exactly the values it held before, and the
\* table returned is a separate copy.
C17_InputTableUnmodified ==
    [][ /\ TablesKept
        /\ ReturnsNewTable(set_invalid_result, set_invalid_result')
        /\ ReturnsNewTable(impute_result, impute_result')
      ]_vars

\* set_invalid_all returned a table that differs from the one given, and
\* impute then one that differs from the one it was given
C17_Witness ==
    /\ tbl_pc = "done"
    /\ SetInvalidAllReturned
    /\ impute_source = set_invalid_result.ref
    /\ impute_result.raised = "none"
    /\ InvalidAllTable # frames[df]
    /\ ImputedTable # InvalidAllTable
    /\ Len(frames[df]) = MaxRows

\* ------------------------------------------------- claims, Spec (results)
\* The result of Constraints as a function of the set of relations given:
\* the solution sets per symbol, and for every pair of them the relations
\* _and_dummy_to_constraints returns for one fixed listing of the atoms.
SolutionSets(rs) ==
    [sym \in Symbols |-> {Solveset(r, sym) : r \in {x \in rs : sym \in GetBasicSymbols(x)}}]

OneOrder(atoms) == CHOOSE args \in Orderings(atoms) : TRUE

DerivedInOneOrder(rs) ==
    UNION {AndDummyToConstraints(OneOrder(DummyRelationAtoms(t[1], t[2]))) :
              t \in {u \in UNION {q[2] \X q[2] : q \in AllPairs(SolutionSets(rs))} : u[1] # u[2]}}

ValidationsOf(rs) ==
    {Validation(k, {r \in rs : GetBasicSymbols(r) = k}) : k \in {GetBasicSymbols(r) : r \in rs}}

ImputationsOf(rs) == UNION {ImputationsOfCall(q[1], q[2]) : q \in rs \X Symbols}

\* the same relation written from the other side
Mirrored(r) ==
    IF IsBoolRel(r) THEN r
    ELSE [op |-> CASE r.op = "<" -> ">" [] r.op = "<=" -> ">=" [] r.op = ">" -> "<"
                   [] r.op = ">=" -> "<=" [] OTHER -> r.op,
          lhs |-> r.rhs, rhs |-> r.lhs]

\* one writing for a relation and its mirror image
Oriented(r) == CHOOSE x \in {r, Mirrored(r)} : TRUE
OrientedValidations(vs) == {Validation(v.keys, {Oriented(r) : r \in v.operations}) : v \in vs}

C19_NoDuplicateImputations ==
    \A imp \in BagToSet(imputations) : CopiesIn(imp, imputations) = 1

\* ------------------------------------------------------ claims, SpecSymbols
GivenNames == SymbolNames(symbol_list)
SupportedDtypes == {"uint8", "int64", "float64", "complex128"}
Missing(i) == GivenNames[i] \notin DOMAIN sym_dtypes
Unsupported(i) == ~Missing(i) /\ sym_dtypes[GivenNames[i]] \notin SupportedDtypes
Offending(i) == Missing(i) \/ Unsupported(i)
SomeOffending == \E i \in DOMAIN GivenNames : Offending(i)
FirstOffending ==
    CHOOSE i \in DOMAIN GivenNames : Offending(i) /\ \A j \in 1..(i - 1) : ~Offending(j)

\* the assumptions the claim gives each storage type
ClaimedAssumptions(dtype) ==
    CASE dtype = "uint8" -> {"integer", "nonnegative"}
      [] dtype = "int64" -> {"integer"}
      [] dtype = "float64" -> {"real"}
      [] dtype = "complex128" -> {"complex"}

RaisedForMissing(i) ==
    /\ sym_outcome.raised = "ValueError"
    /\ sym_outcome.message[1] = "Column "
    /\ sym_outcome.message[2] = GivenNames[i]

RaisedForUnsupported(i) ==
    /\ sym_outcome.raised = "ValueError"
    /\ sym_outcome.message[1] = "Unsupported data type "
    /\ sym_outcome.message[2] = sym_dtypes[GivenNames[i]]
    /\ sym_outcome.message[4] = GivenNames[i]

ReturnedSymbols ==
    /\ sym_outcome.raised = "none"
    /\ Len(sym_outcome.symbols) = Len(GivenNames)
    /\ \A i \in DOMAIN GivenNames :
          /\ sym_outcome.symbols[i].name = GivenNames[i]
          /\ sym_outcome.symbols[i].assumptions = ClaimedAssumptions(sym_dtypes[GivenNames[i]])
    /\ sym_outcome.single <=> Len(GivenNames) = 1

\* C20: symbols(df, names) creates one variable per named column, with the
\* assumptions of the column's storage type: unsigned integer gives
\* non-negative integer, any other integer gives integer, floating gives
\* real, complex gives complex. It raises ValueError naming the column when
\* the column does not exist, ValueError naming the type and the column when
\* the storage type is none of these, and ValueError when no name is given;
\* one name yields a single variable, several names a list in their order.
C20_SymbolsFromDtypes ==
    sym_pc = "done" =>
        IF SomeOffending
        THEN IF Missing(FirstOffending) THEN RaisedForMissing(FirstOffending)
             ELSE RaisedForUnsupported(FirstOffending)
        ELSE IF GivenNames = <<>>
        THEN sym_outcome.raised = "ValueError" /\ sym_outcome.message = <<"No symbols given.">>
        ELSE ReturnedSymbols

\* a str naming an unsigned and a signed integer column, a list returned
C20_Witness ==
    /\ sym_pc = "done"
    /\ ~symbol_list.is_list
    /\ sym_outcome.raised = "none"
    /\ ~sym_outcome.single
    /\ sym_outcome.symbols[1].assumptions = {"integer", "nonnegative"}
    /\ sym_outcome.symbols[2].assumptions = {"integer"}
    /\ sym_outcome.symbols[1].name # sym_outcome.symbols[2].name

\* ----------------------------------------------- claims, SpecElim (pairs)
\* what the pair q of classified atoms gives, and what it gives taken in the
\* other order
Forward(q) == MatchPair(useful_relations[q[1]], useful_relations[q[2]])
Backward(q) == MatchPair(useful_relations[q[2]], useful_relations[q[1]])

\* C28: elimination is symmetric in its two atoms.  Combining (atom1, atom2)
\* and combining (atom2, atom1) either both emit nothing or emit relations that
\* hold for exactly the same values of expr1 and expr2: expr1 < expr2 against
\* expr2 > expr1, with the same strictness.
C28_EliminationSymmetric ==
    elim_pc = "done" =>
        \A q \in UsefulPairs :
            /\ Forward(q) = {} <=> Backward(q) = {}
            /\ Backward(q) = {Mirrored(r) : r \in Forward(q)}
            /\ \A r1 \in Forward(q) : \A r2 \in Backward(q) : \A m \in StepAssignments :
                  EvalRel(r1, m) <=> EvalRel(r2, m)

\* a strict lower bound and a non-strict upper bound gave expr1 < expr2 in one
\* order and expr2 > expr1 in the other
C28_Witness ==
    /\ elim_pc = "done"
    /\ \E q \in UsefulPairs :
          /\ useful_relations[q[1]].strict /\ ~useful_relations[q[2]].strict
          /\ \E r1 \in Forward(q) : \E r2 \in Backward(q) :
                /\ r1.op = "<" /\ r2.op = ">"
                /\ r1.lhs = r2.rhs /\ r1.rhs = r2.lhs
                /\ r1 \in elim_constraints

\* ------------------------------------------- claims, SpecSymbols (domains)
\* the non-negative integers {0, 1, 2, ...} among Numbers
NonNegativeIntegers == {x \in Numbers : ~x.imaginary /\ x.re2 % 2 = 0 /\ x.re2 >= 0}

\* _get_symbol_domain has resolved the domain of a symbol created from an
\* unsigned-integer column
UnsignedResolved ==
    /\ dom_pc = "done"
    /\ domain_symbol.assumptions = {"integer", "nonnegative"}

\* C21: for a variable declared a non-negative integer (created from an
\* unsigned-integer column) the domain _get_symbol_domain resolves is exactly
\* the non-negative integers: 0 belongs to it and no negative integer does.
C21_NonNegativeIntegerDomain == UnsignedResolved => symbol_domain = NonNegativeIntegers

\* What the code resolves instead: assumptions0 holds negative = False, whose
\* domain Interval(-oo, 0) contains 0, so the complement removes 0 and the
\* positive integers {1, 2, ...} are left.
UnsignedDomainExcludesZero ==
    UnsignedResolved => symbol_domain = NonNegativeIntegers \ {[re2 |-> 0, imaginary |-> FALSE]}

\* ---------------------------------------------------------- claims, SpecOr
\* the branch is a conjunction that reduces to at least one eliminated relation
Reduces(branch) == branch.is_and /\ AndDummyToConstraints(branch.args) # {}

EveryBranchReduces == \A i \in 1..Len(or_args) : Reduces(or_args[i])

\* the relations eliminated from all branches
EliminatedFromAll == UNION {AndDummyToConstraints(or_args[i].args) : i \in 1..Len(or_args)}

\* C23: when the combined relation of a pair is a disjunction, a derived
\* relation is emitted only if every branch is a conjunction that reduces to at
\* least one eliminated relation, and it is then the disjunction of the
\* relations eliminated from all branches; if any branch is not a conjunction
\* or reduces to no eliminated relation, nothing is emitted for that pair.
C23_DisjunctiveCase ==
    or_pc = "done" =>
        IF EveryBranchReduces
        THEN \A added \in or_constraints : added.constraint = Or(EliminatedFromAll)
        ELSE or_constraints = {}

\* What the code emits: nothing when some branch is not a conjunction or when
\* no branch eliminates to anything; otherwise the disjunction of what the
\* branches eliminate to, the branches that eliminate to nothing passed over.
DisjunctionOfReducingBranches ==
    or_pc = "done" =>
        IF (\A i \in 1..Len(or_args) : or_args[i].is_and) /\ EliminatedFromAll # {}
        THEN or_constraints =
                {[symbols |-> GetBasicSymbolsOr(Or(EliminatedFromAll)),
                  constraint |-> Or(EliminatedFromAll)]}
        ELSE or_constraints = {}

\* a conjunction of two upper bounds eliminated to nothing, and the relation of
\* the other branch was emitted
PartialDisjunctionEmitted ==
    /\ or_pc = "done"
    /\ \E i \in 1..Len(or_args) : or_args[i].is_and /\ ~Reduces(or_args[i])
    /\ or_constraints # {}

\* ------------------------------------------------------- claims, SpecAtoms
\* the solution set of an atom with one level of Intersection or Union around
\* a single point taken off
Unwrapped(set) ==
    IF set.kind \in {"Intersection", "Union"} /\ set.args[2].kind = "FiniteSet"
    THEN set.args[2] ELSE set

\* the atom cannot be classified: its solution set for the placeholder is
\* neither a single point nor an interval with a constant end
Unclassifiable(atom) ==
    ~ \/ Unwrapped(DummySet(atom)).kind = "FiniteSet"
      \/ /\ Unwrapped(DummySet(atom)).kind = "Interval"
         /\ \/ IsConstant(Unwrapped(DummySet(atom)).start)
            \/ IsConstant(Unwrapped(DummySet(atom)).end)

Classifiable(atom) == ~Unclassifiable(atom)
ClassifyUnwrapped(atom) == ClassifySet(Unwrapped(DummySet(atom)))

\* the triples of the classifiable atoms of and_args, in order
ClassifiableTriples ==
    [i \in 1..Len(SelectSeq(and_args, Classifiable)) |->
        ClassifyUnwrapped(SelectSeq(and_args, Classifiable)[i])]

WarnedAndSkipped ==
    /\ elim_pc = "done"
    /\ elim_warnings = SelectSeq(and_args, Unclassifiable)
    /\ elim_constraints = CombineUseful(ClassifiableTriples)

\* C26: an atom of a conjunction that cannot be classified is reported as a
\* warning and skipped: the call never aborts because of it, and the remaining
\* classifiable atoms of the conjunction are still combined pairwise.
C26_UnclassifiableAtomSkipped ==
    (elim_pc # "call" /\ \E i \in 1..Len(and_args) : Unclassifiable(and_args[i]))
        => WarnedAndSkipped

\* whether the while loop takes len() of a set that has none for the atom
LenOfUnsized(atom) ==
    /\ DummySet(atom).kind \in {"Intersection", "Union"}
    /\ Unsized(DummySet(atom).args[2])

\* What the code does: it warns and skips as claimed unless the solution set
\* of an atom is an Intersection or Union whose second argument has no
\* length; the TypeError of that atom is not caught and ends the call.
WarnedUnlessTypeError ==
    elim_pc # "call" =>
        IF \E i \in 1..Len(and_args) : LenOfUnsized(and_args[i])
        THEN elim_pc = "raised"
        ELSE WarnedAndSkipped

\* ------------------------------------------------------ claims, SpecListed
\* impute(constraints, df) has returned a table
ImputeReturned ==
    /\ tbl_pc = "done"
    /\ tbl_constraints.type = "Constraints"
    /\ impute_result.raised = "none"

\* a row of the returned table and an Imputation of the Constraints with all
\* source columns present and the target still missing
StillImputable(i, imputation) == Imputable(imputation, frames[impute_result.ref][i])

\* C29: impute(Constraints, table) reaches a fixpoint in its single pass over
\* the imputation list: in the returned table no row and no Imputation of the
\* Constraints have all source columns present and the target still missing.
C29_ImputeFixpoint ==
    ImputeReturned =>
        \A i \in (DOMAIN frames[impute_result.ref]) : \A imputation \in tbl_constraints.imputations :
            ~StillImputable(i, imputation)

\* the single pass on the chain a = b, b = c, c = d, d = 1 given in this
\* order, on a row without any value: b, c and d are filled, a is not
ChainRowHalfFilled ==
    /\ ImputeReturned
    /\ constraints[1] = MkRel("=", Sym("a"), Sym("b"))
    /\ Len(constraints) = 4
    /\ frames[impute_source] = <<[col \in ListedColumns |-> NaN]>>
    /\ frames[impute_result.ref] =
          <<[col \in ListedColumns |-> IF col = "a" THEN NaN ELSE Num(1)]>>

\* where one pass does not suffice, it is a value the pass itself filled in
\* that the skipped Imputation reads
ReadsFilledValue ==
    ImputeReturned =>
        \A i \in (DOMAIN frames[impute_result.ref]) : \A imputation \in tbl_constraints.imputations :
            StillImputable(i, imputation) =>
                \E k \in imputation.keys : frames[impute_source][i][k] = NaN

\* ------------------------------------- claims, SpecTable (one Validation)
\* set_invalid_all was given the check result of one Validation
GivenValidationResult ==
    /\ tbl_constraints.type = "Validation"
    /\ tbl_pc \in {"blanked", "raised"}
    /\ set_invalid_result # NoResult
GivenValidation == tbl_constraints.validation

\* the rows in which at least one relation of the Validation is unsatisfied
FailingRows ==
    {i \in (DOMAIN frames[df]) :
        \E operation \in GivenValidation.operations : check_result.cells[operation][i] = Num(0)}

\* the table the claim describes: the member columns are fill in the failing
\* rows, every other cell is the table's
MembersBlanked(table) ==
    /\ Len(table) = Len(frames[df])
    /\ \A i \in (DOMAIN frames[df]) : \A col \in TableColumns :
          table[i][col] = IF i \in FailingRows /\ col \in GivenValidation.keys
                          THEN fill ELSE frames[df][i][col]

\* C30: set_invalid_all accepts the check result of a single Validation with
\* any number n >= 1 of relations: it raises no error, for n > 1 either, and
\* returns the table with the Validation's member columns set to fill in
\* exactly the rows where at least one of the n relations is unsatisfied.
C30_SingleValidationAnyN ==
    GivenValidationResult =>
        /\ set_invalid_result.raised = "none"
        /\ MembersBlanked(frames[set_invalid_result.ref])

\* with one relation, and on a table without rows, the call returns the table
\* the claim describes
SingleRelationBlanked ==
    GivenValidationResult /\ (Cardinality(GivenValidation.operations) = 1 \/ Len(frames[df]) = 0) =>
        /\ set_invalid_result.raised = "none"
        /\ MembersBlanked(frames[set_invalid_result.ref])

\* with more than one relation and a row, columns.item() raises ValueError
SeveralRelationsRaise ==
    GivenValidationResult /\ Cardinality(GivenValidation.operations) > 1 /\ Len(frames[df]) > 0 =>
        /\ set_invalid_result.raised = "ValueError"
        /\ set_invalid_result.message = <<"can only convert an array of size 1 to a Python scalar">>

\* a Validation of two relations, one of them unsatisfied in a row, and the
\* call raised
TwoRelationsRaised ==
    /\ GivenValidationResult
    /\ Cardinality(GivenValidation.operations) = 2
    /\ FailingRows # {}
    /\ set_invalid_result.raised = "ValueError"

\* a Validation of one relation, unsatisfied in a row, blanked with -1
OneRelationBlanked ==
    /\ GivenValidationResult
    /\ Cardinality(GivenValidation.operations) = 1
    /\ FailingRows # {}
    /\ fill = Num(-1)
    /\ set_invalid_result.raised = "none"
====
